---- MODULE Spec2Model ----
(***************************************************************************)
(* Offline digital-cash notes: the issuer (backend/server.js), the         *)
(* holder-side transfer engine (OfflineTransferEngine) and the signature   *)
(* helpers (util/crypto.ts), as one state machine.                         *)
(*                                                                         *)
(* A note payload travels between wallets as plaintext JSON.  The variable *)
(* wire holds the payload currently being passed around; holders apply     *)
(* the engine to it, anybody may copy, truncate or edit it, and any wallet *)
(* may send it to the issuer in a /deposit or /sync request.               *)
(***************************************************************************)
EXTENDS Integers, Sequences, FiniteSets, TLC

(***************************************************************************)
(* Policy constants.                                                       *)
(***************************************************************************)
MAX_OFFLINE_BALANCE == 1000
MAX_HOPS == 3
NOTE_LIFETIME_MS == 7 * 24 * 60 * 60 * 1000
\* the wallet's copies of the limits (src/core/constants, documented in the README)
WALLET_MAX_OFFLINE_BALANCE == 1000
WALLET_MAX_HOPS == 3
\* tweetnacl's crypto_sign_BYTES: the length nacl.sign.detached.verify insists on
SIGNATURE_BYTES == 64

(***************************************************************************)
(* Bounds of the model.                                                    *)
(***************************************************************************)
\* notes the issuer mints in one run
MaxNotes == 1
\* how far from the first notes' expiry, before and after, the clock is read
MaxSkew == 1
\* edits made to a payload outside the wallet application
MaxEdits == 1
\* redeem requests sent to the issuer
MaxRequests == 2
\* transfers the wallets sign in one run
MaxSigns == 3
\* transfers made before the issuer is asked to redeem
MaxHandovers == 2
\* notes the wallet applications withdraw in one run
MaxWithdrawals == 2
\* transfers the wallet applications make in one run
MaxTransfers == 4
\* notes the issuer mints in a run about its ledger
MaxMinted == 3

\* the wallets, named in the order in which they first register
WalletOrder == <<"A", "B", "C">>
Wallets == {WalletOrder[k] : k \in DOMAIN WalletOrder}
NoteIds == <<"n1", "n2", "n3", "n4">>
Amounts == {0, 50, 1001}
\* the wallets that run the application, and the amounts typed into it
AppWallets == {WalletOrder[1], WalletOrder[2]}
AppAmounts == {0, 50, 1000}
Balances == {0, 1000}
RecipientBalances == {0, 950, 1000}
\* the labels asked for in /register, "" for none
Labels == {"", "Till"}
\* the amounts asked of the issuer in a run about its ledger
LedgerAmounts == {0, 50, 100, 950, 1001}

BANK_PUBLIC_KEY == "BANK"
NaN == -1

(***************************************************************************)
(* Signatures (tweetnacl).  A signature is what sign.detached returns for  *)
(* a message and a secret key; verify accepts exactly that value for the   *)
(* matching public key, and throws on a signature of the wrong length.     *)
(***************************************************************************)
SecretKeyOf(publicKey) == "sk:" \o publicKey

Sign(message, secretKey) ==
    [signer |-> secretKey, message |-> message, bytes |-> SIGNATURE_BYTES]

VerifyThrows(signature) == signature.bytes # SIGNATURE_BYTES

Verify(message, signature, publicKey) ==
    /\ signature.bytes = SIGNATURE_BYTES
    /\ signature.signer = SecretKeyOf(publicKey)
    /\ signature.message = message

\* issuerSignature: '' (an empty string decodes to zero bytes)
EmptySignature == [signer |-> "", message |-> "", bytes |-> 0]
\* 64 bytes that no key produced
RandomSignature == [signer |-> "", message |-> "", bytes |-> SIGNATURE_BYTES]

(***************************************************************************)
(* Dates: toISOString and new Date(s).getTime().                           *)
(***************************************************************************)
ToISOString(ms) == "T" \o ToString(ms)

\* the times at which something happens: the start, and the milliseconds around
\* the expiry of the notes minted at the start
TimePoints == {0} \cup ((NOTE_LIFETIME_MS - MaxSkew)..(NOTE_LIFETIME_MS + MaxSkew))
StampedTimes ==
    TimePoints \cup {t + NOTE_LIFETIME_MS : t \in TimePoints}

DateGetTime(s) ==
    IF \E t \in StampedTimes : ToISOString(t) = s
    THEN CHOOSE t \in StampedTimes : ToISOString(t) = s
    ELSE NaN

\* a < b in JavaScript: false when either side is NaN
JsLess(a, b) == a # NaN /\ b # NaN /\ a < b

(***************************************************************************)
(* Canonical messages.                                                     *)
(***************************************************************************)
TransferMessage(noteId, to) == "Transfer:" \o noteId \o ":" \o to

SerializeNoteForSigning(note) ==
    "{\"noteId\":\"" \o note.noteId
        \o "\",\"value\":" \o ToString(note.value)
        \o ",\"createdAt\":\"" \o note.createdAt
        \o "\",\"expiry\":\"" \o note.expiry
        \o "\",\"issuedTo\":\"" \o note.issuedTo \o "\"}"

\* the message of the wallet's verifyBankSignature with issuedTo put first
WalletNoteMessageReordered(note) ==
    "{\"issuedTo\":\"" \o note.issuedTo
        \o "\",\"noteId\":\"" \o note.noteId
        \o "\",\"value\":" \o ToString(note.value)
        \o ",\"createdAt\":\"" \o note.createdAt
        \o "\",\"expiry\":\"" \o note.expiry \o "\"}"

\* the wallet's verifyBankSignature: JSON.stringify(transferable)
WalletNoteMessage(note) ==
    "{\"noteId\":\"" \o note.noteId
        \o "\",\"value\":" \o ToString(note.value)
        \o ",\"createdAt\":\"" \o note.createdAt
        \o "\",\"expiry\":\"" \o note.expiry
        \o "\",\"issuedTo\":\"" \o note.issuedTo \o "\"}"

\* the issuer's message with the recipient put before the note id
ServerTransferMessageSwapped(noteId, to) == "Transfer:" \o to \o ":" \o noteId

\* the issuer's verifyTransferChain: transferMessage
ServerTransferMessage(noteId, to) == "Transfer:" \o noteId \o ":" \o to

(***************************************************************************)
(* util/crypto.ts                                                          *)
(***************************************************************************)
signTransfer(noteId, senderPrivateKey, senderPublicKey, recipientPublicKey, time) ==
    [from |-> senderPublicKey,
     to |-> recipientPublicKey,
     signature |-> Sign(TransferMessage(noteId, recipientPublicKey), senderPrivateKey),
     timestamp |-> ToISOString(time)]

WalletVerifyBankSignatureThrows(note) == VerifyThrows(note.issuerSignature)

WalletVerifyBankSignature(note, bankPublicKey) ==
    Verify(WalletNoteMessage(note), note.issuerSignature, bankPublicKey)

\* the owner every() has reached before entry index
PreviousOwner(note, index) ==
    IF index = 1 THEN note.issuedTo
    ELSE note.transferChain[index - 1].to

\* the callback of every() without the comparison with previousOwner
WalletEntryOkUnlinked(note, index) ==
    LET entry == note.transferChain[index]
    IN Verify(TransferMessage(note.noteId, entry.to), entry.signature, entry.from)

\* the callback of every() without the signature
WalletEntryOkUnsigned(note, index) ==
    note.transferChain[index].from = PreviousOwner(note, index)

\* the callback of every(), wanting a timestamp on the entry as well
WalletEntryOkStamped(note, index) ==
    LET entry == note.transferChain[index]
    IN /\ entry.from = PreviousOwner(note, index)
       /\ entry.timestamp # ""
       /\ Verify(TransferMessage(note.noteId, entry.to), entry.signature, entry.from)

\* the callback of every(): entry index passes
WalletEntryOk(note, index) ==
    LET entry == note.transferChain[index]
    IN /\ entry.from = PreviousOwner(note, index)
       /\ Verify(TransferMessage(note.noteId, entry.to), entry.signature, entry.from)

\* every() stops at the first entry that fails, so verify is only called (and only
\* throws) on an entry all of whose predecessors passed and whose from links
WalletVerifyTransferChainThrows(note) ==
    \E index \in 1..Len(note.transferChain) :
        /\ \A j \in 1..(index - 1) : WalletEntryOk(note, j)
        /\ note.transferChain[index].from = PreviousOwner(note, index)
        /\ VerifyThrows(note.transferChain[index].signature)

WalletVerifyTransferChain(note) ==
    \A index \in 1..Len(note.transferChain) : WalletEntryOk(note, index)

getNoteOwner(note) ==
    IF Len(note.transferChain) = 0 THEN note.issuedTo
    ELSE note.transferChain[Len(note.transferChain)].to

(***************************************************************************)
(* OfflineTransferEngine.  time is Date.now().  A result carries threw     *)
(* when the call ends in an exception instead of returning.                *)
(***************************************************************************)
Validation(ok, reason) == [ok |-> ok, reason |-> reason, threw |-> FALSE]
Thrown == [ok |-> FALSE, reason |-> "exception", threw |-> TRUE]

\* buildTransferPayload with the hop limit off by one, with the new hop put
\* first, without the balance check, and with the hop pushed onto the chain of the
\* note it was given
buildTransferPayloadChanged(change, note, senderPrivateKey, senderPublicKey, recipientPublicKey, currentBalance, time) ==
    LET hop == signTransfer(note.noteId, senderPrivateKey, senderPublicKey,
                            recipientPublicKey, time)
        limit == IF change = "limit" THEN WALLET_MAX_HOPS + 1 ELSE WALLET_MAX_HOPS
        appended == [note EXCEPT !.transferChain = Append(note.transferChain, hop)]
        refused(reason) == [note |-> note, updatedNote |-> note,
                            validation |-> Validation(FALSE, reason)]
    IN IF getNoteOwner(note) # senderPublicKey
       THEN refused("Sender is not the current note owner")
       ELSE IF recipientPublicKey = senderPublicKey
       THEN refused("Cannot transfer to the same wallet")
       ELSE IF Len(note.transferChain) >= limit
       THEN refused("Hop limit exceeded")
       ELSE IF change # "balance" /\ currentBalance < note.value
       THEN refused("Insufficient offline balance")
       ELSE IF DateGetTime(note.expiry) = NaN \/ DateGetTime(note.expiry) < time
       THEN refused("Note has expired")
       ELSE [note |-> IF change = "in place" THEN appended ELSE note,
             updatedNote |->
                 [note EXCEPT !.transferChain =
                     IF change = "order" THEN <<hop>> \o note.transferChain
                     ELSE Append(note.transferChain, hop)],
             validation |-> Validation(TRUE, "")]

buildTransferPayloadOffByOne(note, senderPrivateKey, senderPublicKey, recipientPublicKey, currentBalance, time) ==
    buildTransferPayloadChanged("limit", note, senderPrivateKey, senderPublicKey, recipientPublicKey, currentBalance, time)

buildTransferPayloadPrepending(note, senderPrivateKey, senderPublicKey, recipientPublicKey, currentBalance, time) ==
    buildTransferPayloadChanged("order", note, senderPrivateKey, senderPublicKey, recipientPublicKey, currentBalance, time)

buildTransferPayloadOverdrawing(note, senderPrivateKey, senderPublicKey, recipientPublicKey, currentBalance, time) ==
    buildTransferPayloadChanged("balance", note, senderPrivateKey, senderPublicKey, recipientPublicKey, currentBalance, time)

buildTransferPayloadInPlace(note, senderPrivateKey, senderPublicKey, recipientPublicKey, currentBalance, time) ==
    buildTransferPayloadChanged("in place", note, senderPrivateKey, senderPublicKey, recipientPublicKey, currentBalance, time)

\* the result carries, as note, the object the call was given as the call leaves it
buildTransferPayload(note, senderPrivateKey, senderPublicKey, recipientPublicKey, currentBalance, time) ==
    IF getNoteOwner(note) # senderPublicKey
    THEN [note |-> note, updatedNote |-> note,
          validation |-> Validation(FALSE, "Sender is not the current note owner")]
    ELSE IF recipientPublicKey = senderPublicKey
    THEN [note |-> note, updatedNote |-> note,
          validation |-> Validation(FALSE, "Cannot transfer to the same wallet")]
    ELSE IF Len(note.transferChain) >= WALLET_MAX_HOPS
    THEN [note |-> note, updatedNote |-> note,
          validation |-> Validation(FALSE, "Hop limit exceeded")]
    ELSE IF currentBalance < note.value
    THEN [note |-> note, updatedNote |-> note,
          validation |-> Validation(FALSE, "Insufficient offline balance")]
    ELSE IF DateGetTime(note.expiry) = NaN \/ DateGetTime(note.expiry) < time
    THEN [note |-> note, updatedNote |-> note,
          validation |-> Validation(FALSE, "Note has expired")]
    ELSE [note |-> note,
          updatedNote |->
              [note EXCEPT !.transferChain =
                  Append(note.transferChain,
                         signTransfer(note.noteId, senderPrivateKey, senderPublicKey,
                                      recipientPublicKey, time))],
          validation |-> Validation(TRUE, "")]

\* validateIncomingNote with one of its checks left out, with an expiry that
\* ends a millisecond early, or with a cap that refuses a balance of exactly the
\* limit: which is told by the name
validateIncomingNoteChanged(change, note, bankPublicKey, recipientPublicKey, recipientBalance, time) ==
    IF WalletVerifyBankSignatureThrows(note) THEN Thrown
    ELSE IF ~WalletVerifyBankSignature(note, bankPublicKey)
    THEN Validation(FALSE, "Invalid issuer signature")
    ELSE IF WalletVerifyTransferChainThrows(note) THEN Thrown
    ELSE IF ~WalletVerifyTransferChain(note)
    THEN Validation(FALSE, "Invalid transfer chain")
    ELSE IF getNoteOwner(note) # recipientPublicKey
    THEN Validation(FALSE, "Transfer chain does not end with recipient")
    ELSE IF change # "hop limit" /\ Len(note.transferChain) > WALLET_MAX_HOPS
    THEN Validation(FALSE, "Hop limit exceeded")
    ELSE IF \/ JsLess(DateGetTime(note.expiry), time)
            \/ change = "expiry" /\ DateGetTime(note.expiry) = time
    THEN Validation(FALSE, "Note has expired")
    ELSE IF \/ change # "balance" /\ recipientBalance + note.value > WALLET_MAX_OFFLINE_BALANCE
            \/ change = "cap" /\ recipientBalance + note.value = WALLET_MAX_OFFLINE_BALANCE
    THEN Validation(FALSE, "Offline balance limit exceeded")
    ELSE Validation(TRUE, "")

validateIncomingNoteExpiringEarly(note, bankPublicKey, recipientPublicKey, recipientBalance, time) ==
    validateIncomingNoteChanged("expiry", note, bankPublicKey, recipientPublicKey, recipientBalance, time)

validateIncomingNoteUnlimited(note, bankPublicKey, recipientPublicKey, recipientBalance, time) ==
    validateIncomingNoteChanged("hop limit", note, bankPublicKey, recipientPublicKey, recipientBalance, time)

validateIncomingNoteCappingEarly(note, bankPublicKey, recipientPublicKey, recipientBalance, time) ==
    validateIncomingNoteChanged("cap", note, bankPublicKey, recipientPublicKey, recipientBalance, time)

validateIncomingNote(note, bankPublicKey, recipientPublicKey, recipientBalance, time) ==
    IF WalletVerifyBankSignatureThrows(note) THEN Thrown
    ELSE IF ~WalletVerifyBankSignature(note, bankPublicKey)
    THEN Validation(FALSE, "Invalid issuer signature")
    ELSE IF WalletVerifyTransferChainThrows(note) THEN Thrown
    ELSE IF ~WalletVerifyTransferChain(note)
    THEN Validation(FALSE, "Invalid transfer chain")
    ELSE IF getNoteOwner(note) # recipientPublicKey
    THEN Validation(FALSE, "Transfer chain does not end with recipient")
    ELSE IF Len(note.transferChain) > WALLET_MAX_HOPS
    THEN Validation(FALSE, "Hop limit exceeded")
    ELSE IF JsLess(DateGetTime(note.expiry), time)
    THEN Validation(FALSE, "Note has expired")
    ELSE IF recipientBalance + note.value > WALLET_MAX_OFFLINE_BALANCE
    THEN Validation(FALSE, "Offline balance limit exceeded")
    ELSE Validation(TRUE, "")

(***************************************************************************)
(* backend/server.js: the pure parts.  registered is the key set of        *)
(* registeredWallets, issued the issuedNotes map (a function from the ids  *)
(* issued so far), spent the spentNotes set.                               *)
(***************************************************************************)
ServerVerifyBankSignatureThrows(note) == VerifyThrows(note.issuerSignature)

ServerVerifyBankSignature(note) ==
    Verify(SerializeNoteForSigning(note), note.issuerSignature, BANK_PUBLIC_KEY)

\* the for loop of verifyTransferChain without previousOwner = to
RECURSIVE ServerChainLoopNotAdvancing(_, _, _, _)
ServerChainLoopNotAdvancing(note, index, previousOwner, registered) ==
    IF index > Len(note.transferChain)
    THEN Validation(TRUE, IF index = 1 THEN previousOwner
                          ELSE note.transferChain[index - 1].to)
    ELSE LET entry == note.transferChain[index]
             place == "transfer entry " \o ToString(index - 1)
         IN IF entry.from = "" \/ entry.to = "" \/ entry.signature.bytes = 0
            THEN Validation(FALSE, place \o " is missing properties")
            ELSE IF entry.from \notin registered \/ entry.to \notin registered
            THEN Validation(FALSE, place \o " references unregistered wallet")
            ELSE IF entry.from # previousOwner
            THEN Validation(FALSE, place \o " does not chain from previous owner")
            ELSE IF VerifyThrows(entry.signature) THEN Thrown
            ELSE IF ~Verify(ServerTransferMessage(note.noteId, entry.to), entry.signature,
                            entry.from)
            THEN Validation(FALSE, "signature validation failed for " \o place)
            ELSE ServerChainLoopNotAdvancing(note, index + 1, previousOwner, registered)

\* the for loop of verifyTransferChain from entry index on; the outcome is a
\* validation, a throw, or ok with the owner the loop ended on in reason
RECURSIVE ServerChainLoop(_, _, _, _)
ServerChainLoop(note, index, previousOwner, registered) ==
    IF index > Len(note.transferChain)
    THEN Validation(TRUE, previousOwner)
    ELSE LET entry == note.transferChain[index]
             place == "transfer entry " \o ToString(index - 1)
         IN IF entry.from = "" \/ entry.to = "" \/ entry.signature.bytes = 0
            THEN Validation(FALSE, place \o " is missing properties")
            ELSE IF entry.from \notin registered \/ entry.to \notin registered
            THEN Validation(FALSE, place \o " references unregistered wallet")
            ELSE IF entry.from # previousOwner
            THEN Validation(FALSE, place \o " does not chain from previous owner")
            ELSE IF VerifyThrows(entry.signature) THEN Thrown
            ELSE IF ~Verify(ServerTransferMessage(note.noteId, entry.to), entry.signature,
                            entry.from)
            THEN Validation(FALSE, "signature validation failed for " \o place)
            ELSE ServerChainLoop(note, index + 1, entry.to, registered)

\* verifyTransferChain without its last check, of the depositor
ServerVerifyTransferChainForAnyone(note, depositorPublicKey, registered, issued) ==
    IF Len(note.transferChain) > MAX_HOPS
    THEN Validation(FALSE, "hop limit exceeded (" \o ToString(Len(note.transferChain))
                               \o "/" \o ToString(MAX_HOPS) \o ")")
    ELSE IF note.noteId \notin DOMAIN issued
    THEN Validation(FALSE, "note was not issued by this bank")
    ELSE IF issued[note.noteId].issuedTo # note.issuedTo
    THEN Validation(FALSE, "issuedTo does not match issuance record")
    ELSE LET loop == ServerChainLoop(note, 1, note.issuedTo, registered)
         IN IF ~loop.ok THEN loop ELSE Validation(TRUE, "")

ServerVerifyTransferChain(note, depositorPublicKey, registered, issued) ==
    IF Len(note.transferChain) > MAX_HOPS
    THEN Validation(FALSE, "hop limit exceeded (" \o ToString(Len(note.transferChain))
                               \o "/" \o ToString(MAX_HOPS) \o ")")
    ELSE IF note.noteId \notin DOMAIN issued
    THEN Validation(FALSE, "note was not issued by this bank")
    ELSE IF issued[note.noteId].issuedTo # note.issuedTo
    THEN Validation(FALSE, "issuedTo does not match issuance record")
    ELSE LET loop == ServerChainLoop(note, 1, note.issuedTo, registered)
         IN IF ~loop.ok THEN loop
            ELSE IF loop.reason # depositorPublicKey
            THEN Validation(FALSE, "note is not owned by depositing wallet")
            ELSE Validation(TRUE, "")

SumValues(notes) ==
    LET RECURSIVE Sum(_)
        Sum(S) == IF S = {} THEN 0
                  ELSE LET n == CHOOSE x \in S : TRUE IN n.value + Sum(S \ {n})
    IN Sum(notes)

calculateOfflineBalance(walletPublicKey, issued, spent) ==
    LET counted(note) ==
            /\ note.noteId \notin spent
            /\ IF Len(note.transferChain) = 0 THEN note.owner = walletPublicKey
               ELSE note.transferChain[Len(note.transferChain)].to = walletPublicKey
    IN SumValues({issued[id] : id \in {i \in DOMAIN issued : counted(issued[i])}})

\* issuedNotes.set(noteId, {...note, owner})
WithOwner(note, owner) ==
    [noteId |-> note.noteId, value |-> note.value,
     issuerSignature |-> note.issuerSignature, createdAt |-> note.createdAt,
     expiry |-> note.expiry, issuedTo |-> note.issuedTo,
     transferChain |-> note.transferChain, owner |-> owner]

Rejected(note, reason) == [noteId |-> note.noteId, status |-> "rejected", reason |-> reason]
Redeemed(note) == [noteId |-> note.noteId, status |-> "redeemed", reason |-> ""]

\* redeemNotes' callback with a step left out: which is told by the name
RedeemOneLeavingOut(step, publicKey, submittedNote, registered, issued, spent, time) ==
    LET keep(result) == [result |-> result, threw |-> FALSE, issued |-> issued, spent |-> spent]
        transferCheck == ServerVerifyTransferChain(submittedNote, publicKey, registered, issued)
    IN IF submittedNote.noteId = ""
       THEN keep(Rejected(submittedNote, "noteId missing"))
       ELSE IF step \notin {"spent check", "place of spent check"} /\ submittedNote.noteId \in spent
       THEN keep(Rejected(submittedNote, "note already spent"))
       ELSE IF ServerVerifyBankSignatureThrows(submittedNote)
       THEN [keep(Rejected(submittedNote, "exception")) EXCEPT !.threw = TRUE]
       ELSE IF step # "bank signature" /\ ~ServerVerifyBankSignature(submittedNote)
       THEN keep(Rejected(submittedNote, "invalid bank signature"))
       ELSE IF step = "place of expiry check"
                   /\ JsLess(DateGetTime(submittedNote.expiry), time)
       THEN keep(Rejected(submittedNote, "note expired"))
       ELSE IF transferCheck.threw
       THEN [keep(Rejected(submittedNote, "exception")) EXCEPT !.threw = TRUE]
       ELSE IF ~transferCheck.ok
       THEN keep(Rejected(submittedNote, transferCheck.reason))
       ELSE IF JsLess(DateGetTime(submittedNote.expiry), time)
       THEN keep(Rejected(submittedNote, "note expired"))
       ELSE IF step = "place of spent check" /\ submittedNote.noteId \in spent
       THEN keep(Rejected(submittedNote, "note already spent"))
       ELSE [result |-> Redeemed(submittedNote), threw |-> FALSE,
             issued |-> [id \in DOMAIN issued |->
                            IF id = submittedNote.noteId
                            THEN WithOwner(submittedNote, publicKey) ELSE issued[id]],
             spent |-> IF step = "spentNotes.add" THEN spent
                       ELSE spent \cup {submittedNote.noteId}]

RedeemOneNotMarking(publicKey, submittedNote, registered, issued, spent, time) ==
    RedeemOneLeavingOut("spentNotes.add", publicKey, submittedNote, registered, issued, spent, time)

RedeemOneNotLookingUp(publicKey, submittedNote, registered, issued, spent, time) ==
    RedeemOneLeavingOut("spent check", publicKey, submittedNote, registered, issued, spent, time)

\* the spent check made last instead of first
RedeemOneLookingUpLast(publicKey, submittedNote, registered, issued, spent, time) ==
    RedeemOneLeavingOut("place of spent check", publicKey, submittedNote, registered, issued, spent, time)

\* the expiry check made before the chain is verified
RedeemOneExpiringFirst(publicKey, submittedNote, registered, issued, spent, time) ==
    RedeemOneLeavingOut("place of expiry check", publicKey, submittedNote, registered, issued, spent, time)

RedeemOneTrustingSignature(publicKey, submittedNote, registered, issued, spent, time) ==
    RedeemOneLeavingOut("bank signature", publicKey, submittedNote, registered, issued, spent, time)

\* the callback of notes.map in redeemNotes, for one submitted note: its result
\* (or a throw) and the ledger it leaves
RedeemOne(publicKey, submittedNote, registered, issued, spent, time) ==
    LET keep(result) == [result |-> result, threw |-> FALSE, issued |-> issued, spent |-> spent]
        transferCheck == ServerVerifyTransferChain(submittedNote, publicKey, registered, issued)
    IN IF submittedNote.noteId = ""
       THEN keep(Rejected(submittedNote, "noteId missing"))
       ELSE IF submittedNote.noteId \in spent
       THEN keep(Rejected(submittedNote, "note already spent"))
       ELSE IF ServerVerifyBankSignatureThrows(submittedNote)
       THEN [keep(Rejected(submittedNote, "exception")) EXCEPT !.threw = TRUE]
       ELSE IF ~ServerVerifyBankSignature(submittedNote)
       THEN keep(Rejected(submittedNote, "invalid bank signature"))
       ELSE IF transferCheck.threw
       THEN [keep(Rejected(submittedNote, "exception")) EXCEPT !.threw = TRUE]
       ELSE IF ~transferCheck.ok
       THEN keep(Rejected(submittedNote, transferCheck.reason))
       ELSE IF JsLess(DateGetTime(submittedNote.expiry), time)
       THEN keep(Rejected(submittedNote, "note expired"))
       ELSE [result |-> Redeemed(submittedNote), threw |-> FALSE,
             issued |-> [id \in DOMAIN issued |->
                            IF id = submittedNote.noteId
                            THEN WithOwner(submittedNote, publicKey) ELSE issued[id]],
             spent |-> spent \cup {submittedNote.noteId}]

\* notes.map from position index on, the results so far in results; a throw ends
\* the map, keeps what the earlier callbacks did to the ledger and returns nothing
RECURSIVE RedeemMap(_, _, _, _, _, _, _, _)
RedeemMap(publicKey, notes, index, results, registered, issued, spent, time) ==
    IF index > Len(notes)
    THEN [results |-> results, threw |-> FALSE, issued |-> issued, spent |-> spent]
    ELSE LET one == RedeemOne(publicKey, notes[index], registered, issued, spent, time)
         IN IF one.threw
            THEN [results |-> <<>>, threw |-> TRUE, issued |-> one.issued, spent |-> one.spent]
            ELSE RedeemMap(publicKey, notes, index + 1, Append(results, one.result),
                           registered, one.issued, one.spent, time)

\* redeemNotes without its check of the depositor
redeemNotesForAnyone(publicKey, notes, registered, issued, spent, time) ==
    RedeemMap(publicKey, notes, 1, <<>>, registered, issued, spent, time)

redeemNotes(publicKey, notes, registered, issued, spent, time) ==
    IF publicKey \notin registered
    THEN [results |-> [i \in 1..Len(notes) |-> Rejected(notes[i], "wallet is not registered")],
          threw |-> FALSE, issued |-> issued, spent |-> spent]
    ELSE RedeemMap(publicKey, notes, 1, <<>>, registered, issued, spent, time)

(***************************************************************************)
(* State.                                                                  *)
(***************************************************************************)
VARIABLES
    now,                \* Date.now()
    registeredWallets,  \* server: public key -> label
    issuedNotes,        \* server: note id -> issued note with its owner
    spentNotes,         \* server: ids already redeemed
    wire,               \* the note payload being passed around
    wireTag,            \* history: how wire came about
    edits,              \* edits made to payloads so far
    sent,               \* redeem requests sent so far
    inflight,           \* redeem requests sent and not yet handled
    responses,          \* history: what the issuer answered, in order
    signCount,          \* history: signTransfer calls per <<noteId, from, to>>
    walletNotes,        \* app: the notes each wallet holds (the state of useWallet)
    transferred,        \* history: successful handleExportTransfer calls per note id
    sending,            \* app: the Bluetooth sends each wallet is waiting for, in order
    storage,            \* app: the notes under NOTES_KEY in each wallet's AsyncStorage
    calls,              \* app: the withdrawNote and syncNotes calls each wallet is waiting for
    redeemedCount,      \* history: redeemed results returned per note id
    last                \* history: the latest engine or issuer call and its result

vars == <<now, registeredWallets, issuedNotes, spentNotes, wire, wireTag, edits, sent,
          inflight, responses, signCount, walletNotes, transferred, sending,
          storage, calls, redeemedCount, last>>

serverVars == <<registeredWallets, issuedNotes, spentNotes>>
requestVars == <<sent, inflight, responses, redeemedCount>>
wireVars == <<wire, wireTag, edits, signCount>>
appVars == <<walletNotes, transferred, sending, storage, calls>>

NoPayload ==
    [noteId |-> "", value |-> 0, issuerSignature |-> EmptySignature, createdAt |-> "",
     expiry |-> "", issuedTo |-> "", transferChain |-> <<>>]

\* a note no issuer made, with an empty issuerSignature
BrokenNote == [NoPayload EXCEPT !.noteId = "n0", !.value = 50, !.issuedTo = "A"]

Idle == [op |-> "none"]

Init ==
    /\ now = 0
    /\ registeredWallets = <<>>
    /\ issuedNotes = <<>>
    /\ spentNotes = {}
    /\ wire = NoPayload
    /\ wireTag = "none"
    /\ edits = 0
    /\ sent = 0
    /\ inflight = {}
    /\ responses = <<>>
    /\ signCount = [k \in {} |-> 0]
    /\ walletNotes = [w \in Wallets |-> <<>>]
    /\ transferred = [id \in {} |-> 0]
    /\ sending = [w \in Wallets |-> <<>>]
    /\ storage = [w \in Wallets |-> <<>>]
    /\ calls = [w \in Wallets |-> {}]
    /\ redeemedCount = [id \in {} |-> 0]
    /\ last = Idle

Extend(f, key, value) == [k \in DOMAIN f \cup {key} |-> IF k = key THEN value ELSE f[k]]
CountOf(f, key) == IF key \in DOMAIN f THEN f[key] ELSE 0
Total(f) ==
    LET RECURSIVE Sum(_)
        Sum(S) == IF S = {} THEN 0
                  ELSE LET k == CHOOSE x \in S : TRUE IN f[k] + Sum(S \ {k})
    IN Sum(DOMAIN f)

(***************************************************************************)
(* The clock.                                                              *)
(***************************************************************************)
Tick ==
    /\ \E t \in TimePoints : t > now /\ now' = t
    /\ last' = Idle
    /\ UNCHANGED <<serverVars, requestVars, wireVars, appVars>>

(***************************************************************************)
(* POST /register                                                          *)
(***************************************************************************)
\* the handler storing the label of every request, also for a registered key
RegisterAsOverwriting(publicKey, label) ==
    LET given == IF label # "" THEN label
                 ELSE "Wallet-" \o ToString(Cardinality(DOMAIN registeredWallets) + 1)
    IN /\ registeredWallets' = Extend(registeredWallets, publicKey, given)
       /\ last' = [op |-> "register", publicKey |-> publicKey, asked |-> label,
                   status |-> IF publicKey \in DOMAIN registeredWallets THEN 200 ELSE 201,
                   ok |-> publicKey \notin DOMAIN registeredWallets, label |-> given]
       /\ UNCHANGED <<now, issuedNotes, spentNotes, requestVars, wireVars, appVars>>

\* a body with a publicKey and a label, "" for a body without label
RegisterAs(publicKey, label) ==
    /\ IF publicKey \in DOMAIN registeredWallets
       THEN /\ UNCHANGED registeredWallets
            /\ last' = [op |-> "register", publicKey |-> publicKey, asked |-> label,
                        status |-> 200, ok |-> FALSE,
                        label |-> registeredWallets[publicKey]]
       ELSE LET given == IF label # "" THEN label
                         ELSE "Wallet-" \o ToString(Cardinality(DOMAIN registeredWallets) + 1)
            IN /\ registeredWallets' = Extend(registeredWallets, publicKey, given)
               /\ last' = [op |-> "register", publicKey |-> publicKey, asked |-> label,
                           status |-> 201, ok |-> TRUE, label |-> given]
    /\ UNCHANGED <<now, issuedNotes, spentNotes, requestVars, wireVars, appVars>>

\* the wallet application sends no label
Register(publicKey) == RegisterAs(publicKey, "")

(***************************************************************************)
(* POST /withdraw.  uuidv4() is the next unused id; the wallet that asked  *)
(* receives the note, which is then the payload on the wire.               *)
(***************************************************************************)
\* the values Date.now() may return after new Date() returned time, within one
\* handler: the same millisecond or the next
LaterReads(time) == {t \in TimePoints : time <= t /\ t <= time + 1}

\* the handler with one of its lines changed
WithdrawResponseChanged(change, publicKey, amount, registered, issued, spent, time, later) ==
    LET refused(status, error) ==
            [ok |-> FALSE, status |-> status, error |-> error, note |-> NoPayload]
        unsigned == [noteId |-> NoteIds[Cardinality(DOMAIN issued) + 1],
                     value |-> amount,
                     issuerSignature |-> EmptySignature,
                     createdAt |-> ToISOString(time),
                     expiry |-> ToISOString(later + NOTE_LIFETIME_MS),
                     issuedTo |-> publicKey,
                     transferChain |-> <<>>]
        balance == calculateOfflineBalance(publicKey, issued, spent)
    IN IF publicKey \notin registered
       THEN refused(404, "wallet is not registered")
       ELSE IF (IF change = "positive" THEN amount < 0 ELSE amount <= 0)
       THEN refused(400, "amount must be positive")
       ELSE IF amount > MAX_OFFLINE_BALANCE
       THEN refused(400, "amount exceeds offline balance limit ("
                             \o ToString(MAX_OFFLINE_BALANCE) \o ")")
       ELSE IF /\ change # "no cap"
               /\ (IF change = "cap" THEN balance + amount >= MAX_OFFLINE_BALANCE
                   ELSE balance + amount > MAX_OFFLINE_BALANCE)
       THEN refused(400, "offline balance limit would be exceeded")
       ELSE [ok |-> TRUE, status |-> 201, error |-> "",
             note |-> [unsigned EXCEPT !.issuerSignature =
                          Sign(SerializeNoteForSigning(unsigned),
                               SecretKeyOf(BANK_PUBLIC_KEY))]]

WithdrawResponseCappingEarly(publicKey, amount, registered, issued, spent, time, later) ==
    WithdrawResponseChanged("cap", publicKey, amount, registered, issued, spent, time, later)

\* the handler without the check of the balance
WithdrawResponseUncapped(publicKey, amount, registered, issued, spent, time, later) ==
    WithdrawResponseChanged("no cap", publicKey, amount, registered, issued, spent, time, later)

WithdrawResponseTakingZero(publicKey, amount, registered, issued, spent, time, later) ==
    WithdrawResponseChanged("positive", publicKey, amount, registered, issued, spent, time, later)

\* what the handler answers and the note it makes, for a body with a publicKey and
\* a numeric amount; new Date() returns time and Date.now() returns later
WithdrawResponse(publicKey, amount, registered, issued, spent, time, later) ==
    LET refused(status, error) ==
            [ok |-> FALSE, status |-> status, error |-> error, note |-> NoPayload]
        unsigned == [noteId |-> NoteIds[Cardinality(DOMAIN issued) + 1],
                     value |-> amount,
                     issuerSignature |-> EmptySignature,
                     createdAt |-> ToISOString(time),
                     expiry |-> ToISOString(later + NOTE_LIFETIME_MS),
                     issuedTo |-> publicKey,
                     transferChain |-> <<>>]
    IN IF publicKey \notin registered
       THEN refused(404, "wallet is not registered")
       ELSE IF amount <= 0
       THEN refused(400, "amount must be positive")
       ELSE IF amount > MAX_OFFLINE_BALANCE
       THEN refused(400, "amount exceeds offline balance limit ("
                             \o ToString(MAX_OFFLINE_BALANCE) \o ")")
       ELSE IF calculateOfflineBalance(publicKey, issued, spent) + amount > MAX_OFFLINE_BALANCE
       THEN refused(400, "offline balance limit would be exceeded")
       ELSE [ok |-> TRUE, status |-> 201, error |-> "",
             note |-> [unsigned EXCEPT !.issuerSignature =
                          Sign(SerializeNoteForSigning(unsigned),
                               SecretKeyOf(BANK_PUBLIC_KEY))]]

\* a refusal is answered before the clock is read
Withdraw(publicKey, amount) ==
    \E later \in LaterReads(now) :
        LET done == WithdrawResponse(publicKey, amount, DOMAIN registeredWallets,
                                     issuedNotes, spentNotes, now, later)
        IN /\ Cardinality(DOMAIN issuedNotes) < Len(NoteIds)
           /\ last' = [op |-> "withdraw", publicKey |-> publicKey, amount |-> amount,
                       ok |-> done.ok, status |-> done.status, error |-> done.error]
           /\ IF done.ok
              THEN /\ issuedNotes' = Extend(issuedNotes, done.note.noteId,
                                            WithOwner(done.note, publicKey))
                   /\ wire' = done.note
                   /\ wireTag' = "engine"
                   /\ now' = later
                   /\ UNCHANGED <<edits, signCount>>
              ELSE /\ later = now
                   /\ UNCHANGED <<now, issuedNotes, wireVars>>
           /\ UNCHANGED <<registeredWallets, spentNotes, requestVars, appVars>>

\* the issuer mints no more than limit notes in one run
CanMint(limit) == Cardinality(DOMAIN issuedNotes) < limit

\* the handler has notes left to mint, or refuses this request
NotesLeft(limit, publicKey, amount) ==
    \/ CanMint(limit)
    \/ ~WithdrawResponse(publicKey, amount, DOMAIN registeredWallets, issuedNotes,
                         spentNotes, now, now).ok

(***************************************************************************)
(* The wallets.  A wallet applies the engine to the payload it was handed, *)
(* with its own key pair.                                                  *)
(***************************************************************************)
ExportTransfer(sender, recipient, balance) ==
    LET built == buildTransferPayload(wire, SecretKeyOf(sender), sender, recipient, balance, now)
        key == <<wire.noteId, sender, recipient>>
    IN /\ wire.noteId # ""
       /\ built.validation.ok => Total(signCount) < MaxSigns
       /\ wire' = built.updatedNote
       /\ wireTag' = IF built.validation.ok /\ wireTag # "edited" THEN "engine" ELSE wireTag
       /\ signCount' = IF built.validation.ok
                       THEN Extend(signCount, key, CountOf(signCount, key) + 1)
                       ELSE signCount
       /\ last' = [op |-> "buildTransferPayload", ok |-> built.validation.ok, note |-> wire,
                   senderPublicKey |-> sender, recipientPublicKey |-> recipient,
                   currentBalance |-> balance, time |-> now,
                   updatedNote |-> built.updatedNote, validation |-> built.validation]
       /\ UNCHANGED <<now, serverVars, requestVars, edits, appVars>>

ReceiveNote(recipient, balance) ==
    /\ wire.noteId # ""
    /\ last' = [op |-> "validateIncomingNote", note |-> wire,
                recipientPublicKey |-> recipient, recipientBalance |-> balance, time |-> now,
                validation |-> validateIncomingNote(wire, BANK_PUBLIC_KEY, recipient, balance, now)]
    /\ UNCHANGED <<now, serverVars, requestVars, wireVars, appVars>>

\* the holder who signed the last hop kept the payload as it was before that hop
RetainedCopy ==
    /\ wireTag \in {"engine", "retained"}
    /\ Len(wire.transferChain) > 0
    /\ wire' = [wire EXCEPT !.transferChain = SubSeq(wire.transferChain, 1, Len(wire.transferChain) - 1)]
    /\ wireTag' = "retained"
    /\ last' = Idle
    /\ UNCHANGED <<now, serverVars, requestVars, edits, signCount, appVars>>

(***************************************************************************)
(* Edits of the plaintext payload made outside the wallet application.     *)
(***************************************************************************)
Edit(kind, note) ==
    /\ wire.noteId # ""
    /\ edits < MaxEdits
    /\ wire' = note
    /\ wireTag' = "edited"
    /\ edits' = edits + 1
    /\ last' = [op |-> "edit", kind |-> kind, note |-> wire]
    /\ UNCHANGED <<now, serverVars, requestVars, signCount, appVars>>

Hops == 1..Len(wire.transferChain)
WithChain(chain) == [wire EXCEPT !.transferChain = chain]

\* an earlier hop of the note, signature and all, appended again
ReplayHop(i) == Edit("ReplayHop", WithChain(Append(wire.transferChain, wire.transferChain[i])))

\* a key holder signs a hop itself, without the engine's checks
AppendOwnHop(from, to) ==
    LET key == <<wire.noteId, from, to>>
    IN /\ wire.noteId # ""
       /\ edits < MaxEdits
       /\ wire' = WithChain(Append(wire.transferChain,
                        signTransfer(wire.noteId, SecretKeyOf(from), from, to, now)))
       /\ wireTag' = "edited"
       /\ edits' = edits + 1
       /\ signCount' = Extend(signCount, key, CountOf(signCount, key) + 1)
       /\ last' = [op |-> "edit", kind |-> "AppendOwnHop", note |-> wire]
       /\ UNCHANGED <<now, serverVars, requestVars, appVars>>

SetHopFrom(i, key) ==
    /\ key # wire.transferChain[i].from
    /\ Edit("SetHopFrom", WithChain([wire.transferChain EXCEPT ![i].from = key]))

SetHopTo(i, key) ==
    /\ key # wire.transferChain[i].to
    /\ Edit("SetHopTo", WithChain([wire.transferChain EXCEPT ![i].to = key]))

SetHopSignature(i, signature) ==
    /\ signature # wire.transferChain[i].signature
    /\ Edit("SetHopSignature", WithChain([wire.transferChain EXCEPT ![i].signature = signature]))

SwapHops(i, j) ==
    /\ i < j
    /\ Edit("SwapHops", WithChain([wire.transferChain EXCEPT ![i] = wire.transferChain[j],
                                                             ![j] = wire.transferChain[i]]))

SetIssuedTo(key) ==
    /\ key # wire.issuedTo
    /\ Edit("SetIssuedTo", [wire EXCEPT !.issuedTo = key])

SetIssuerSignature(signature) ==
    /\ signature # wire.issuerSignature
    /\ Edit("SetIssuerSignature", [wire EXCEPT !.issuerSignature = signature])

(***************************************************************************)
(* POST /deposit and POST /sync.  A request is sent with a batch made of   *)
(* the payload on the wire; the handlers run one at a time, each to its    *)
(* end, in any order of the requests in flight.                            *)
(***************************************************************************)
Shapes == {"one", "thenBroken"}

Batch(shape) ==
    CASE shape = "one" -> <<wire>>
      [] shape = "thenBroken" -> <<wire, BrokenNote>>

BatchTags(shape) ==
    CASE shape = "one" -> <<wireTag>>
      [] shape = "thenBroken" -> <<wireTag, "broken">>

SendRedeem(kind, publicKey, shape) ==
    /\ wire.noteId # ""
    /\ sent < MaxRequests
    /\ sent' = sent + 1
    /\ inflight' = inflight \cup {[rid |-> sent + 1, kind |-> kind, publicKey |-> publicKey,
                                   notes |-> Batch(shape), tags |-> BatchTags(shape),
                                   sentAt |-> Len(responses)]}
    /\ last' = Idle
    /\ UNCHANGED <<now, serverVars, responses, redeemedCount, wireVars, appVars>>

\* history: the note would be redeemed by this depositor if its id were unspent
Acceptable(publicKey, note) ==
    /\ publicKey \in DOMAIN registeredWallets
    /\ LET one == RedeemOne(publicKey, note, DOMAIN registeredWallets, issuedNotes, {}, now)
       IN ~one.threw /\ one.result.status = "redeemed"

Outcome(result) == IF result.status = "redeemed" THEN "redeemed" ELSE result.reason

\* history: the note names another first owner than the issuance record of its id
ForgedRoot(note) ==
    /\ note.noteId \in DOMAIN issuedNotes
    /\ note.issuedTo # issuedNotes[note.noteId].issuedTo

\* history: every wallet the note names, as first owner or in a hop, is registered
RouteRegistered(note) ==
    /\ note.issuedTo \in DOMAIN registeredWallets
    /\ \A i \in 1..Len(note.transferChain) :
           /\ note.transferChain[i].from \in DOMAIN registeredWallets
           /\ note.transferChain[i].to \in DOMAIN registeredWallets

\* history: the note is as the wallets made it, went through two transfers, the
\* second to the depositor, and is submitted alone by this depositor, who is
\* registered
Relayed(req, i) ==
    /\ req.tags[i] = "engine" /\ Len(req.notes) = 1
    /\ Len(req.notes[i].transferChain) = 2
    /\ getNoteOwner(req.notes[i]) = req.publicKey
    /\ req.publicKey \in DOMAIN registeredWallets

\* the entry of the responses log for one request: the HTTP status, and for each
\* submitted note what was returned for it ("none" when the response carries no
\* results) next to what the handler found when it started
Answer(req, status, results, balanceBefore, balanceAfter) ==
    [rid |-> req.rid, kind |-> req.kind, publicKey |-> req.publicKey, status |-> status,
     registered |-> req.publicKey \in DOMAIN registeredWallets,
     sentAt |-> req.sentAt, balanceBefore |-> balanceBefore, balanceAfter |-> balanceAfter,
     notes |-> [i \in 1..Len(req.notes) |->
                   [noteId |-> req.notes[i].noteId,
                    tag |-> req.tags[i],
                    valid |-> Acceptable(req.publicKey, req.notes[i]),
                    spent |-> req.notes[i].noteId \in spentNotes,
                    forgedRoot |-> ForgedRoot(req.notes[i]),
                    relayed |-> Relayed(req, i),
                    routeRegistered |-> Relayed(req, i) /\ RouteRegistered(req.notes[i]),
                    outcome |-> IF status = 200 THEN Outcome(results[i]) ELSE "none"]]]

Counted(counts, results) ==
    LET ids == DOMAIN counts \cup {results[i].noteId : i \in DOMAIN results}
    IN [id \in ids |-> CountOf(counts, id)
            + Cardinality({i \in DOMAIN results :
                               results[i].noteId = id /\ results[i].status = "redeemed"})]

HandleRedeem(req) ==
    LET registered == DOMAIN registeredWallets
        done == redeemNotes(req.publicKey, req.notes, registered, issuedNotes, spentNotes, now)
        balanceBefore == calculateOfflineBalance(req.publicKey, issuedNotes, spentNotes)
        balanceAfter == calculateOfflineBalance(req.publicKey, done.issued, done.spent)
    IN /\ req \in inflight
       /\ inflight' = inflight \ {req}
       /\ last' = Idle
       /\ IF req.kind = "deposit" /\ req.publicKey \notin registered
          THEN /\ responses' = Append(responses, Answer(req, 404, <<>>, 0, 0))
               /\ UNCHANGED <<issuedNotes, spentNotes, redeemedCount>>
          ELSE /\ issuedNotes' = done.issued
               /\ spentNotes' = done.spent
               /\ redeemedCount' = Counted(redeemedCount, done.results)
               /\ responses' = Append(responses,
                      Answer(req, IF done.threw THEN 500 ELSE 200, done.results,
                             IF req.kind = "sync" THEN balanceBefore ELSE 0,
                             IF req.kind = "sync" THEN balanceAfter ELSE 0))
       /\ UNCHANGED <<now, registeredWallets, sent, wireVars, appVars>>

(***************************************************************************)
(* App.tsx and walletService.ts: a wallet application per key pair.  Its   *)
(* notes are walletNotes[publicKey]; the payload it exports                *)
(* (lastExportedNote) goes on the wire, and the payload it imports         *)
(* (importedNote) is whatever is on the wire.                              *)
(***************************************************************************)
\* balance: the values of the held notes the wallet owns
RECURSIVE AppBalance(_, _)
AppBalance(publicKey, held) ==
    IF held = <<>> THEN 0
    ELSE (IF getNoteOwner(Head(held)) = publicKey THEN Head(held).value ELSE 0)
             + AppBalance(publicKey, Tail(held))

OwnedNotes(publicKey) ==
    SelectSeq(walletNotes[publicKey], LAMBDA note : getNoteOwner(note) = publicKey)

Holds(publicKey, noteId) ==
    \E i \in DOMAIN walletNotes[publicKey] : walletNotes[publicKey][i].noteId = noteId

AppResult(op, publicKey, ok, reason, note) ==
    [op |-> op, publicKey |-> publicKey, ok |-> ok, reason |-> reason, note |-> note]

\* handleWithdraw: withdrawNote checks the amount, asks the issuer and stores the
\* note it gets
handleWithdraw(publicKey, amount) ==
    \E later \in LaterReads(now) :
        LET done == WithdrawResponse(publicKey, amount, DOMAIN registeredWallets,
                                     issuedNotes, spentNotes, now, later)
        IN IF amount <= 0 \/ amount > WALLET_MAX_OFFLINE_BALANCE
           THEN /\ later = now
                /\ last' = AppResult("handleWithdraw", publicKey, FALSE,
                                     "Amount must respect offline balance limits", NoPayload)
                /\ UNCHANGED <<now, serverVars, requestVars, wireVars, appVars>>
           ELSE /\ Cardinality(DOMAIN issuedNotes) < Len(NoteIds)
                /\ last' = AppResult("handleWithdraw", publicKey, done.ok, done.error,
                                     done.note)
                /\ IF done.ok
                   THEN /\ issuedNotes' = Extend(issuedNotes, done.note.noteId,
                                                 WithOwner(done.note, publicKey))
                        /\ walletNotes' = [walletNotes EXCEPT ![publicKey] =
                                              Append(@, done.note)]
                        /\ storage' = [storage EXCEPT ![publicKey] =
                                          Append(@, done.note)]
                        /\ now' = later
                   ELSE /\ later = now
                        /\ UNCHANGED <<now, issuedNotes, walletNotes, storage>>
                /\ UNCHANGED <<registeredWallets, spentNotes, requestVars, wireVars,
                               transferred, sending, calls>>

\* handleExportTransfer: the first owned note goes through buildTransferPayload
\* with the wallet's balance; on ok it leaves the wallet and its payload is shown
handleExportTransfer(publicKey, recipient) ==
    LET owned == OwnedNotes(publicKey)
        note == owned[1]
        built == buildTransferPayload(note, SecretKeyOf(publicKey), publicKey, recipient,
                                      AppBalance(publicKey, walletNotes[publicKey]), now)
        key == <<note.noteId, publicKey, recipient>>
    IN IF owned = <<>>
       THEN /\ last' = AppResult("handleExportTransfer", publicKey, FALSE,
                                 "No notes available", NoPayload)
            /\ UNCHANGED <<now, serverVars, requestVars, wireVars, appVars>>
       ELSE IF ~built.validation.ok
       THEN /\ last' = AppResult("handleExportTransfer", publicKey, FALSE,
                                 built.validation.reason, note)
            /\ UNCHANGED <<now, serverVars, requestVars, wireVars, appVars>>
       ELSE /\ walletNotes' = [walletNotes EXCEPT ![publicKey] =
                                  SelectSeq(@, LAMBDA candidate : candidate.noteId # note.noteId)]
            /\ wire' = built.updatedNote
            /\ wireTag' = "engine"
            /\ signCount' = Extend(signCount, key, CountOf(signCount, key) + 1)
            /\ transferred' = Extend(transferred, note.noteId,
                                     CountOf(transferred, note.noteId) + 1)
            /\ last' = AppResult("handleExportTransfer", publicKey, TRUE, "", built.updatedNote)
            /\ storage' = [storage EXCEPT ![publicKey] = walletNotes'[publicKey]]
            /\ UNCHANGED <<now, serverVars, requestVars, edits, sending, calls>>

\* handleImportNote without its check for a note of the same id
handleImportNoteAgain(publicKey) ==
    LET validation == validateIncomingNote(wire, BANK_PUBLIC_KEY, publicKey,
                                           AppBalance(publicKey, walletNotes[publicKey]), now)
    IN /\ publicKey \in DOMAIN registeredWallets
       /\ wire.noteId # ""
       /\ IF ~validation.ok
          THEN /\ last' = AppResult("handleImportNote", publicKey, FALSE,
                                    validation.reason, wire)
               /\ UNCHANGED <<walletNotes, storage>>
          ELSE /\ last' = AppResult("handleImportNote", publicKey, TRUE, "", wire)
               /\ walletNotes' = [walletNotes EXCEPT ![publicKey] = Append(@, wire)]
               /\ storage' = [storage EXCEPT ![publicKey] = walletNotes'[publicKey]]
       /\ UNCHANGED <<now, serverVars, requestVars, wireVars, transferred, sending, calls>>

\* handleImportNote: the pasted payload is refused when a note with its id is held,
\* validated with the wallet's balance, and stored on ok; an exception of the
\* validation is caught and reported
handleImportNote(publicKey) ==
    LET validation == validateIncomingNote(wire, BANK_PUBLIC_KEY, publicKey,
                                           AppBalance(publicKey, walletNotes[publicKey]), now)
    IN /\ publicKey \in DOMAIN registeredWallets
       /\ wire.noteId # ""
       /\ IF Holds(publicKey, wire.noteId)
          THEN /\ last' = AppResult("handleImportNote", publicKey, FALSE, "Duplicate note", wire)
               /\ UNCHANGED <<walletNotes, storage>>
          ELSE IF ~validation.ok
          THEN /\ last' = AppResult("handleImportNote", publicKey, FALSE,
                                    validation.reason, wire)
               /\ UNCHANGED <<walletNotes, storage>>
          ELSE /\ last' = AppResult("handleImportNote", publicKey, TRUE, "", wire)
               /\ walletNotes' = [walletNotes EXCEPT ![publicKey] = Append(@, wire)]
               /\ storage' = [storage EXCEPT ![publicKey] = walletNotes'[publicKey]]
       /\ UNCHANGED <<now, serverVars, requestVars, wireVars, transferred, sending, calls>>

\* the filter with every note that has a result left out, the rejected ones too
unspentWithoutResult(notes, results) ==
    SelectSeq(notes, LAMBDA note :
        ~\E i \in DOMAIN results : results[i].noteId = note.noteId)

\* syncNotes' unspent: the submitted notes without those that have a redeemed
\* result
unspent(notes, results) ==
    SelectSeq(notes, LAMBDA note :
        ~\E i \in DOMAIN results :
            results[i].noteId = note.noteId /\ results[i].status = "redeemed")

\* handleSync: syncNotes posts every held note to /sync and keeps the notes that
\* were not redeemed; when the response is not ok it throws and the wallet keeps
\* its notes
handleSync(publicKey) ==
    LET held == walletNotes[publicKey]
        done == redeemNotes(publicKey, held, DOMAIN registeredWallets, issuedNotes,
                            spentNotes, now)
        redeemed(note) ==
            \E i \in DOMAIN done.results :
                done.results[i].noteId = note.noteId /\ done.results[i].status = "redeemed"
    IN /\ issuedNotes' = done.issued
       /\ spentNotes' = done.spent
       /\ redeemedCount' = Counted(redeemedCount, done.results)
       /\ IF done.threw
          THEN /\ last' = AppResult("handleSync", publicKey, FALSE, "Sync failed", NoPayload)
               /\ UNCHANGED <<walletNotes, storage>>
          ELSE /\ last' = AppResult("handleSync", publicKey, TRUE, "", NoPayload)
               /\ walletNotes' = [walletNotes EXCEPT ![publicKey] =
                                     SelectSeq(@, LAMBDA note : ~redeemed(note))]
               /\ storage' = [storage EXCEPT ![publicKey] = unspent(held, done.results)]
       /\ UNCHANGED <<now, registeredWallets, sent, inflight, responses, wireVars,
                      transferred, sending, calls>>

\* a call that changes the payload or the ledger: the calls that are refused leave
\* both as they are
Effective == last'.op # "none" /\ last'.ok

\* publicKey is registered, or the next wallet to register
InOrder(publicKey) ==
    \A k, m \in DOMAIN WalletOrder :
        k < m /\ WalletOrder[m] = publicKey => WalletOrder[k] \in DOMAIN registeredWallets

EditStep ==
    \/ \E i \in Hops : ReplayHop(i)
    \/ \E from \in Wallets, to \in Wallets : AppendOwnHop(from, to)
    \/ \E i \in Hops, key \in Wallets : SetHopFrom(i, key)
    \/ \E i \in Hops, key \in Wallets : SetHopTo(i, key)
    \/ \E i \in Hops, signature \in {RandomSignature, EmptySignature} : SetHopSignature(i, signature)
    \/ \E i \in Hops, j \in Hops : SwapHops(i, j)
    \/ \E key \in Wallets : SetIssuedTo(key)
    \/ \E signature \in {RandomSignature, EmptySignature} : SetIssuerSignature(signature)

(***************************************************************************)
(* Spec: the issuer and its redeem requests.  Of the calls to /register,   *)
(* /withdraw and the engine it keeps the ones that change something.  The  *)
(* wallets act between the requests: a handler reads its request and the   *)
(* ledger only, so what happens to the payload while a request is in       *)
(* flight could as well happen after the answer.  A run ends with the      *)
(* answer to its last request.                                             *)
(***************************************************************************)
Quiet == inflight = {} /\ sent < MaxRequests

Next ==
    \/ \E publicKey \in Wallets :
           Quiet /\ InOrder(publicKey) /\ Register(publicKey) /\ Effective
    \/ \E publicKey \in Wallets, amount \in Amounts :
           CanMint(MaxNotes) /\ Withdraw(publicKey, amount) /\ Effective
    \/ \E sender \in Wallets, recipient \in Wallets, balance \in Balances :
           /\ Quiet /\ Total(signCount) < MaxHandovers
           /\ ExportTransfer(sender, recipient, balance) /\ Effective
    \/ Quiet /\ RetainedCopy
    \/ \E key \in Wallets : Quiet /\ SetIssuedTo(key)
    \/ \E kind \in {"deposit", "sync"}, publicKey \in Wallets, shape \in Shapes :
           SendRedeem(kind, publicKey, shape)
    \/ \E req \in inflight : HandleRedeem(req)

Spec == Init /\ [][Next]_vars

(***************************************************************************)
(* Properties of the issuer, checked under Spec.                           *)
(***************************************************************************)
\* the per-note entries of the responses log, as <<response, position>>
Entries == UNION {{<<p, k>> : k \in DOMAIN responses[p].notes} : p \in DOMAIN responses}
Entry(e) == responses[e[1]].notes[e[2]]
Before(e, f) == e[1] < f[1] \/ (e[1] = f[1] /\ e[2] < f[2])

\* C1: for every note id, over any sequence of redeem requests, at most one
\* per-note result for that id is ever "redeemed"
C1_AtMostOneRedeemed ==
    /\ \A id \in DOMAIN redeemedCount : redeemedCount[id] <= 1
    /\ \A e, f \in Entries :
           Entry(e).noteId = Entry(f).noteId /\ Entry(e).outcome = "redeemed"
               /\ Entry(f).outcome = "redeemed" => e = f

\* C1 witness: a copy of a note was redeemed, and a copy with the same id that
\* would have been redeemed had it come first was answered "note already spent"
C1_Witness ==
    \E e, f \in Entries :
        /\ Before(e, f) /\ Entry(e).noteId = Entry(f).noteId
        /\ Entry(e).outcome = "redeemed"
        /\ Entry(f).valid /\ Entry(f).outcome = "note already spent"
        /\ redeemedCount[Entry(e).noteId] = 1

\* two answers to requests that were both in flight at one time: the later answered
\* was sent before the earlier was answered
Concurrent(p, q) == p < q /\ responses[q].sentAt < p

\* C2 as stated: of two redeem requests carrying the same valid note and handled
\* concurrently, exactly one is answered "redeemed" for it and the other "note
\* already spent"
C2_AsStated ==
    \A e, f \in Entries :
        /\ Concurrent(e[1], f[1])
        /\ Entry(e).noteId = Entry(f).noteId
        /\ Entry(e).valid /\ Entry(f).valid
        /\ ~Entry(e).spent
        => /\ Entry(e).outcome = "redeemed"
           /\ Entry(f).outcome = "note already spent"

\* C5 as stated: the copy a holder retained from before it transferred the note
\* onward is never answered "redeemed"
C5_AsStated ==
    \A e \in Entries : Entry(e).tag = "retained" => Entry(e).outcome # "redeemed"

\* C5: the issuer sees no hop before a redemption, so a retained copy is redeemed
\* like any copy: when its depositor owns it by its own chain and no copy of the
\* note has been spent; once a copy has been spent, it is answered "note already
\* spent"
C5_RetainedCopyFirstComeFirstServed ==
    \A e \in Entries :
        Entry(e).tag = "retained" /\ responses[e[1]].status = 200
        => /\ Entry(e).outcome = "redeemed" <=> Entry(e).valid /\ ~Entry(e).spent
           /\ Entry(e).spent =>
                  Entry(e).outcome \in {"note already spent", "wallet is not registered"}

\* C5 witness: a retained copy was redeemed, and the copy of the same note that
\* went onward was answered "note already spent" after it
C5_Witness ==
    \E e, f \in Entries :
        /\ Before(e, f) /\ Entry(e).noteId = Entry(f).noteId
        /\ Entry(e).tag = "retained" /\ Entry(e).outcome = "redeemed"
        /\ Entry(f).tag = "engine" /\ Entry(f).outcome = "note already spent"

\* C6 as stated: a note whose issuedTo was changed after the mint is rejected with
\* "issuedTo does not match issuance record"
C6_AsStated ==
    \A e \in Entries :
        Entry(e).forgedRoot /\ responses[e[1]].status = 200
        => Entry(e).outcome = "issuedTo does not match issuance record"

\* C6: a note whose issuedTo was changed after the mint is never redeemed; the
\* issuer's signature covers issuedTo and is verified before the issuance record
\* is consulted, so the rejection reads "invalid bank signature" (or names the
\* earlier checks: depositor not registered, note already spent)
C6_ForgedRootRejectedBySignature ==
    \A e \in Entries :
        Entry(e).forgedRoot /\ responses[e[1]].status = 200
        => /\ Entry(e).outcome \in {"invalid bank signature", "note already spent",
                                     "wallet is not registered"}
           /\ Entry(e).outcome = "note already spent" => Entry(e).spent

\* C6 witness: a note with a changed issuedTo was submitted by a registered wallet
\* before its id was spent and answered "invalid bank signature"
C6_Witness ==
    \E e \in Entries :
        /\ Entry(e).forgedRoot /\ ~Entry(e).spent
        /\ Entry(e).outcome = "invalid bank signature"

\* C19: in a batch every submitted note gets a result of its own, and a note that
\* is valid and unspent is answered "redeemed" whatever else the batch holds
C19_AsStated ==
    \A e \in Entries :
        responses[e[1]].status # 404
            => /\ Entry(e).outcome # "none"
               /\ Entry(e).valid /\ ~Entry(e).spent => Entry(e).outcome = "redeemed"

RedeemedIds(answer) ==
    {answer.notes[i].noteId : i \in {k \in DOMAIN answer.notes :
                                        answer.notes[k].outcome = "redeemed"}}

\* C23: a request to redeem changes the ledger only by its redeemed results: each
\* adds its note id to spentNotes and sets the owner of the id's record to the
\* depositor, a rejected result changes nothing; spentNotes only grows and every id
\* in it has a record in issuedNotes
C23_AsStated ==
    /\ [][Len(responses') = Len(responses) + 1
          => LET answer == responses'[Len(responses')]
             IN /\ spentNotes' = spentNotes \cup RedeemedIds(answer)
                /\ DOMAIN issuedNotes' = DOMAIN issuedNotes
                /\ \A id \in DOMAIN issuedNotes :
                       IF id \in RedeemedIds(answer)
                       THEN issuedNotes'[id].owner = answer.publicKey
                       ELSE issuedNotes'[id] = issuedNotes[id]
         ]_vars
    /\ [][spentNotes \subseteq spentNotes']_vars
    /\ [](spentNotes \subseteq DOMAIN issuedNotes)

\* a log entry for a note as the wallets made it, with two hops, submitted alone
\* by a registered wallet that owns it
TwoHopsFromOwner(e) == Entry(e).relayed

\* C13 as stated: after a mint to A and the transfers A->B and B->C, C's submission
\* is answered "redeemed" and its resubmission "note already spent"
C13_AsStated ==
    \A e \in Entries :
        TwoHopsFromOwner(e) =>
            /\ ~Entry(e).spent => Entry(e).outcome = "redeemed"
            /\ Entry(e).spent => Entry(e).outcome = "note already spent"

\* C13: after a mint to A and the transfers A->B and B->C, with A, B and C
\* registered, C's submission of the note is answered "redeemed" unless a copy of
\* the note was redeemed before, and every later submission "note already spent"
C13_EndToEnd ==
    \A e \in Entries :
        TwoHopsFromOwner(e) /\ Entry(e).routeRegistered =>
            /\ ~Entry(e).spent => Entry(e).outcome = "redeemed"
            /\ Entry(e).spent => Entry(e).outcome = "note already spent"

\* C13 witness: C submitted a note that went from A to B to C and was answered
\* "redeemed", submitted it again and was answered "note already spent"
C13_Witness ==
    \E e, f \in Entries :
        /\ Before(e, f) /\ Entry(e).noteId = Entry(f).noteId
        /\ TwoHopsFromOwner(e) /\ TwoHopsFromOwner(f)
        /\ responses[e[1]].publicKey = WalletOrder[3] /\ Entry(e).routeRegistered
        /\ Entry(e).outcome = "redeemed" /\ Entry(f).outcome = "note already spent"

(***************************************************************************)
(* SpecEngine: the wallets' engine on every payload, refused calls and     *)
(* all, before any request to redeem.                                      *)
(***************************************************************************)
NextEngine ==
    \/ \E publicKey \in Wallets : InOrder(publicKey) /\ Register(publicKey)
    \/ \E publicKey \in Wallets, amount \in Amounts :
           NotesLeft(MaxNotes, publicKey, amount) /\ Withdraw(publicKey, amount)
    \/ \E sender \in Wallets, recipient \in Wallets, balance \in Balances :
           ExportTransfer(sender, recipient, balance)
    \/ \E recipient \in Wallets, balance \in RecipientBalances :
           ReceiveNote(recipient, balance)
    \/ EditStep

SpecEngine == Init /\ [][NextEngine]_vars

(***************************************************************************)
(* Properties of the engine and of chain verification, checked under       *)
(* SpecEngine on every payload the wallets and the edits produce.          *)
(***************************************************************************)
\* every hop starts where the previous one ended, the first at issuedTo
Linked(note) ==
    \A i \in 1..Len(note.transferChain) :
        note.transferChain[i].from =
            IF i = 1 THEN note.issuedTo ELSE note.transferChain[i - 1].to

\* every hop's signature is what the hop's from makes, with its secret key, of
\* "Transfer:" + noteId + ":" + to
SignedByFrom(note) ==
    \A i \in 1..Len(note.transferChain) :
        LET hop == note.transferChain[i]
        IN hop.signature = Sign("Transfer:" \o note.noteId \o ":" \o hop.to, SecretKeyOf(hop.from))

\* the issuerSignature is what the issuer made of the note's five fields, and the
\* issuer did mint a note with these fields
IssuedByBank(note) ==
    /\ note.issuerSignature =
           Sign(SerializeNoteForSigning(note), SecretKeyOf(BANK_PUBLIC_KEY))
    /\ note.noteId \in DOMAIN issuedNotes
    /\ LET record == issuedNotes[note.noteId]
       IN /\ record.value = note.value /\ record.createdAt = note.createdAt
          /\ record.expiry = note.expiry /\ record.issuedTo = note.issuedTo

\* the hops of the chain from one wallet to another
HopsBetween(note, from, to) ==
    {i \in 1..Len(note.transferChain) :
        note.transferChain[i].from = from /\ note.transferChain[i].to = to}

Accepted == last.op = "validateIncomingNote" /\ last.validation.ok

\* the chain has no more hops from one wallet to another than that wallet's key
\* holder signed for this note
EveryHopSignedForIt(note) ==
    \A from \in Wallets, to \in Wallets :
        Cardinality(HopsBetween(note, from, to))
            <= CountOf(signCount, <<note.noteId, from, to>>)

\* C3 as stated: validateIncomingNote returns ok only for a note the issuer signed
\* over exactly its noteId, value, createdAt, expiry and issuedTo, whose hops link
\* from issuedTo on and are each signed by the hop's from over
\* "Transfer:"+noteId+":"+to; and an accepted note is one the holders of those keys
\* made, hop by hop: nobody without the key of a hop's from added that hop
C3_AsStated ==
    Accepted =>
        /\ IssuedByBank(last.note)
        /\ Linked(last.note)
        /\ SignedByFrom(last.note)
        /\ EveryHopSignedForIt(last.note)

\* C3, the part that holds: an accepted note carries the issuer's signature over
\* its five fields, its hops link from issuedTo to the recipient, and each hop's
\* signature was made at least once by a holder of from's key
C3_AcceptedOnlyIfSigned ==
    Accepted =>
        /\ IssuedByBank(last.note)
        /\ Linked(last.note)
        /\ SignedByFrom(last.note)
        /\ \A i \in 1..Len(last.note.transferChain) :
               LET hop == last.note.transferChain[i]
               IN CountOf(signCount, <<last.note.noteId, hop.from, hop.to>>) >= 1
        /\ getNoteOwner(last.note) = last.recipientPublicKey

\* verifyTransferChain of the wallet returns true
HolderVerifies(note) ==
    ~WalletVerifyTransferChainThrows(note) /\ WalletVerifyTransferChain(note)

\* verifyTransferChain of the issuer returns ok for this depositor
IssuerVerifies(note, depositorPublicKey) ==
    LET check == ServerVerifyTransferChain(note, depositorPublicKey,
                                           DOMAIN registeredWallets, issuedNotes)
    IN ~check.threw /\ check.ok

\* where a linked chain ends
LastTo(note) ==
    IF note.transferChain = <<>> THEN note.issuedTo
    ELSE note.transferChain[Len(note.transferChain)].to

\* C4 as stated: verifyChain succeeds, at the wallet and at the issuer, if and only
\* if the hops link, every hop signature is its from's over
\* "Transfer:"+noteId+":"+to, and there are at most 3 hops; the owner is the last to
C4_AsStated ==
    wire.noteId # "" =>
        /\ HolderVerifies(wire) <=>
               (Linked(wire) /\ SignedByFrom(wire) /\ Len(wire.transferChain) <= 3)
        /\ IssuerVerifies(wire, LastTo(wire)) <=>
               (Linked(wire) /\ SignedByFrom(wire) /\ Len(wire.transferChain) <= 3)
        /\ getNoteOwner(wire) = LastTo(wire)

\* C4: the wallet's verifyTransferChain succeeds if and only if the hops link and
\* every hop signature is its from's, whatever the length; the issuer's succeeds
\* for a depositor if and only if, besides, there are at most MAX_HOPS hops, the
\* note id has an issuance record with the same issuedTo, every from and to is a
\* registered wallet, and the depositor is the last to (issuedTo for no hops),
\* which is also what getNoteOwner returns
C4_ChainSoundness ==
    /\ HolderVerifies(wire) <=> (Linked(wire) /\ SignedByFrom(wire))
    /\ getNoteOwner(wire) = LastTo(wire)
    /\ \A depositor \in Wallets :
           IssuerVerifies(wire, depositor) <=>
               /\ Len(wire.transferChain) <= MAX_HOPS
               /\ wire.noteId \in DOMAIN issuedNotes
               /\ issuedNotes[wire.noteId].issuedTo = wire.issuedTo
               /\ Linked(wire) /\ SignedByFrom(wire)
               /\ \A i \in 1..Len(wire.transferChain) :
                      /\ wire.transferChain[i].from \in DOMAIN registeredWallets
                      /\ wire.transferChain[i].to \in DOMAIN registeredWallets
               /\ depositor = LastTo(wire)

\* C4 witness: a chain of four linked, signed hops between registered wallets was
\* put to a wallet's validateIncomingNote; the wallet's verifyTransferChain
\* succeeds on it and the issuer's does not
C4_Witness ==
    /\ last.op = "validateIncomingNote" /\ last.note = wire
    /\ Len(wire.transferChain) = 4
    /\ HolderVerifies(wire)
    /\ \A i \in 1..4 : wire.transferChain[i].to \in DOMAIN registeredWallets
    /\ ~IssuerVerifies(wire, LastTo(wire))

\* the from and to of the hops, in order
Route(note) ==
    [i \in 1..Len(note.transferChain) |->
        <<note.transferChain[i].from, note.transferChain[i].to>>]

\* the latest step changed a from or a to, or exchanged two hops, of a chain that
\* verified
Tampered ==
    /\ last.op = "edit"
    /\ last.kind \in {"SetHopFrom", "SetHopTo", "SwapHops"}
    /\ HolderVerifies(last.note)

C8_AsStated ==
    (HolderVerifies(wire) \/ \E depositor \in Wallets : IssuerVerifies(wire, depositor))
        => EveryHopSignedForIt(wire)

\* the latest call to buildTransferPayload, and whether it returned ok
Built == last.op = "buildTransferPayload"
BuiltOk == Built /\ last.validation.ok

\* C9: on success buildTransferPayload returns the input chain with exactly one
\* hop appended at the end, from the sender to the recipient, every existing hop
\* kept at its index
C9_AppendsOneHop ==
    BuiltOk =>
        LET before == last.note.transferChain
            after == last.updatedNote.transferChain
        IN /\ Len(after) = Len(before) + 1
           /\ \A i \in 1..Len(before) : after[i] = before[i]
           /\ after[Len(after)].from = last.senderPublicKey
           /\ after[Len(after)].to = last.recipientPublicKey

\* C9 witness: a transfer of a note that already had two hops succeeded
C9_Witness ==
    BuiltOk /\ Len(last.note.transferChain) = 2 /\ Len(wire.transferChain) = 3

\* redeemNotes' result for the payload on the wire, submitted alone by depositor
RedeemNow(depositor) ==
    redeemNotes(depositor, <<wire>>, DOMAIN registeredWallets, issuedNotes, spentNotes, now)

\* C10: buildTransferPayload refuses a note with 3 hops (or more) and returns it
\* as it is, with "Hop limit exceeded" when the sender owns it and names another
\* wallet; validateIncomingNote and redeem reject a note with 4 hops (or more),
\* with their hop limit reasons when the issuer signed the note, the hops link and
\* verify and the last to is the recipient, respectively when the issuer signed
\* the note and the depositor is registered
C10_HopLimit ==
    /\ Built /\ Len(last.note.transferChain) >= WALLET_MAX_HOPS =>
           /\ ~last.validation.ok
           /\ last.updatedNote = last.note
           /\ (getNoteOwner(last.note) = last.senderPublicKey
                   /\ last.recipientPublicKey # last.senderPublicKey)
               => last.validation.reason = "Hop limit exceeded"
    /\ last.op = "validateIncomingNote" /\ Len(last.note.transferChain) > WALLET_MAX_HOPS =>
           /\ ~last.validation.ok
           /\ (IssuedByBank(last.note) /\ HolderVerifies(last.note)
                   /\ LastTo(last.note) = last.recipientPublicKey)
               => last.validation.reason = "Hop limit exceeded"
    /\ Len(wire.transferChain) > MAX_HOPS =>
           \A depositor \in Wallets :
               LET done == RedeemNow(depositor)
               IN /\ done.issued = issuedNotes /\ done.spent = spentNotes
                  /\ ~done.threw => done.results[1].status = "rejected"
                  /\ (IssuedByBank(wire) /\ depositor \in DOMAIN registeredWallets)
                      => /\ ~done.threw
                         /\ done.results[1].reason =
                                "hop limit exceeded (" \o ToString(Len(wire.transferChain)) \o "/3)"

\* C10 witness: a note the issuer signed, with four linked and signed hops, the
\* last to the recipient, was put to validateIncomingNote and refused
C10_Witness ==
    /\ last.op = "validateIncomingNote" /\ last.note = wire
    /\ Len(wire.transferChain) = 4
    /\ IssuedByBank(wire) /\ HolderVerifies(wire)
    /\ LastTo(wire) = last.recipientPublicKey
    /\ last.recipientPublicKey \in DOMAIN registeredWallets
    /\ last.validation.reason = "Hop limit exceeded"

\* C25: buildTransferPayload refuses with 'Sender is not the current note owner'
\* when getNoteOwner is not the sender, with 'Cannot transfer to the same wallet'
\* when the owner names itself, and with 'Insufficient offline balance' when the
\* owner names another wallet, the chain is below the hop limit and currentBalance
\* is below the value; every refusal returns the input note, and a refused call
\* leaves the payload and the count of signed hops as they were
C25_TransferFailures ==
    /\ [](Built =>
            LET owner == getNoteOwner(last.note)
                reason == last.validation.reason
            IN /\ owner # last.senderPublicKey =>
                      ~last.validation.ok /\ reason = "Sender is not the current note owner"
               /\ (owner = last.senderPublicKey
                       /\ last.recipientPublicKey = last.senderPublicKey) =>
                      ~last.validation.ok /\ reason = "Cannot transfer to the same wallet"
               /\ (owner = last.senderPublicKey
                       /\ last.recipientPublicKey # last.senderPublicKey
                       /\ Len(last.note.transferChain) < WALLET_MAX_HOPS
                       /\ last.currentBalance < last.note.value) =>
                      ~last.validation.ok /\ reason = "Insufficient offline balance"
               /\ ~last.validation.ok =>
                      /\ last.updatedNote = last.note
                      /\ last.updatedNote.transferChain = last.note.transferChain)
    /\ [][(last' # last /\ last'.op = "buildTransferPayload" /\ ~last'.validation.ok) =>
              /\ last'.note = wire /\ wire' = wire
              /\ signCount' = signCount]_vars

\* C25 witness: the owner of a note with one hop named another wallet with a
\* balance below the value and was refused for the balance, the payload kept
C25_Witness ==
    /\ Built /\ last.note = wire /\ Len(wire.transferChain) = 1
    /\ getNoteOwner(wire) = last.senderPublicKey
    /\ last.recipientPublicKey # last.senderPublicKey
    /\ last.currentBalance < wire.value
    /\ last.validation.reason = "Insufficient offline balance"
    /\ last.updatedNote = wire

\* C26: validateIncomingNote returns ok only when getNoteOwner is the recipient
\* and recipientBalance + value is at most 1000; a note that passes the issuer
\* signature and the chain verification and is owned by another wallet is refused
\* with 'Transfer chain does not end with recipient'; one that passes every
\* earlier check is refused with 'Offline balance limit exceeded' when the sum is
\* above 1000 and accepted when it is 1000 or less
C26_AcceptsRecipientWithinCap ==
    last.op = "validateIncomingNote" =>
        LET note == last.note
            sum == last.recipientBalance + note.value
            verified == IssuedByBank(note) /\ HolderVerifies(note)
            inTime == /\ Len(note.transferChain) <= WALLET_MAX_HOPS
                      /\ ~JsLess(DateGetTime(note.expiry), last.time)
        IN /\ last.validation.ok =>
                  /\ getNoteOwner(note) = last.recipientPublicKey
                  /\ sum <= WALLET_MAX_OFFLINE_BALANCE
           /\ (verified /\ getNoteOwner(note) # last.recipientPublicKey) =>
                  /\ ~last.validation.ok
                  /\ last.validation.reason = "Transfer chain does not end with recipient"
           /\ (verified /\ getNoteOwner(note) = last.recipientPublicKey /\ inTime) =>
                  IF sum > WALLET_MAX_OFFLINE_BALANCE
                  THEN /\ ~last.validation.ok
                       /\ last.validation.reason = "Offline balance limit exceeded"
                  ELSE last.validation.ok

\* C26 witness: a recipient with a balance of 950 was handed a note of 50 with two
\* hops, the last to it, and validateIncomingNote accepted it at exactly 1000
C26_Witness ==
    /\ Accepted /\ last.note = wire /\ Len(wire.transferChain) = 2
    /\ last.recipientBalance = 950 /\ wire.value = 50
    /\ last.recipientBalance + wire.value = WALLET_MAX_OFFLINE_BALANCE
    /\ getNoteOwner(wire) = last.recipientPublicKey

(***************************************************************************)
(* SpecClock: the engine on the payloads the wallets make themselves,      *)
(* while the clock runs past the notes' expiry.                            *)
(***************************************************************************)
NextClock ==
    \/ Tick
    \/ \E publicKey \in Wallets : InOrder(publicKey) /\ Register(publicKey)
    \/ \E publicKey \in Wallets, amount \in Amounts :
           NotesLeft(MaxNotes, publicKey, amount) /\ Withdraw(publicKey, amount)
    \/ \E sender \in Wallets, recipient \in Wallets, balance \in Balances :
           ExportTransfer(sender, recipient, balance)
    \/ \E recipient \in Wallets, balance \in Balances : ReceiveNote(recipient, balance)

SpecClock == Init /\ [][NextClock]_vars

(***************************************************************************)
(* Properties of expiry, checked under SpecClock.                          *)
(***************************************************************************)
\* the latest call was buildTransferPayload and its checks other than expiry pass
BuildOtherwiseOk ==
    /\ Built
    /\ getNoteOwner(last.note) = last.senderPublicKey
    /\ last.recipientPublicKey # last.senderPublicKey
    /\ Len(last.note.transferChain) < WALLET_MAX_HOPS
    /\ last.currentBalance >= last.note.value

\* the latest call was validateIncomingNote and its checks other than expiry pass
ValidateOtherwiseOk ==
    /\ last.op = "validateIncomingNote"
    /\ IssuedByBank(last.note) /\ HolderVerifies(last.note)
    /\ getNoteOwner(last.note) = last.recipientPublicKey
    /\ Len(last.note.transferChain) <= WALLET_MAX_HOPS
    /\ last.recipientBalance + last.note.value <= WALLET_MAX_OFFLINE_BALANCE

\* redeem's checks other than expiry pass for the payload on the wire
RedeemOtherwiseOk(depositor) ==
    /\ depositor \in DOMAIN registeredWallets
    /\ wire.noteId # "" /\ wire.noteId \notin spentNotes
    /\ IssuedByBank(wire)
    /\ IssuerVerifies(wire, depositor)

\* now > expiry
Past(note, time) == time > DateGetTime(note.expiry)

\* C12: with all other checks passing, buildTransferPayload, validateIncomingNote
\* and redeem reject a note as expired exactly when now > expiry, so a note whose
\* expiry is now is still accepted by all three
C12_ExpiryBoundary ==
    /\ BuildOtherwiseOk =>
           /\ last.validation.ok <=> ~Past(last.note, last.time)
           /\ ~last.validation.ok => last.validation.reason = "Note has expired"
    /\ ValidateOtherwiseOk =>
           /\ last.validation.ok <=> ~Past(last.note, last.time)
           /\ ~last.validation.ok => last.validation.reason = "Note has expired"
    /\ \A depositor \in Wallets :
           RedeemOtherwiseOk(depositor) =>
               LET result == RedeemNow(depositor).results[1]
               IN /\ result.status = "redeemed" <=> ~Past(wire, now)
                  /\ result.status # "redeemed" => result.reason = "note expired"

\* C12 witness: one millisecond after its expiry a note that passes every other
\* check was put to validateIncomingNote and refused as expired, and the issuer
\* would reject it as expired from its owner too
C12_Witness ==
    /\ ValidateOtherwiseOk /\ last.note = wire
    /\ now = DateGetTime(wire.expiry) + 1
    /\ last.validation.reason = "Note has expired"
    /\ RedeemOtherwiseOk(last.recipientPublicKey)
    /\ RedeemNow(last.recipientPublicKey).results[1].reason = "note expired"

\* C18: a minted note has an id no earlier note has, issuedTo = publicKey, an empty
\* transferChain, an expiry of exactly createdAt + 7 days and an issuerSignature that
\* verifies over its noteId, value, createdAt, expiry and issuedTo, and issuedNotes
\* holds the same note under its id
C18_AsStated ==
    [][last'.op = "withdraw" /\ last'.ok
       => /\ wire'.noteId \notin DOMAIN issuedNotes
          /\ wire'.issuedTo = last'.publicKey
          /\ wire'.value = last'.amount
          /\ wire'.transferChain = <<>>
          /\ DateGetTime(wire'.expiry) = DateGetTime(wire'.createdAt) + NOTE_LIFETIME_MS
          /\ Verify(SerializeNoteForSigning(wire'), wire'.issuerSignature, BANK_PUBLIC_KEY)
          /\ wire'.noteId \in DOMAIN issuedNotes'
          /\ issuedNotes'[wire'.noteId] = WithOwner(wire', last'.publicKey)
      ]_vars

(***************************************************************************)
(* The wallet applications.  They register, withdraw, export and import    *)
(* payloads and sync; a holder may keep the payload it got and paste it    *)
(* again later.  Of the calls to /register, handleWithdraw and             *)
(* handleExportTransfer a run keeps the ones that change something.        *)
(* SpecWallet has wallets with several notes, SpecRelay one note that is   *)
(* passed on many times.                                                   *)
(***************************************************************************)
NextApp(withdrawals, transfers) ==
    \/ \E publicKey \in AppWallets : InOrder(publicKey) /\ Register(publicKey) /\ Effective
    \/ \E publicKey \in AppWallets, amount \in AppAmounts :
           /\ CanMint(withdrawals)
           /\ handleWithdraw(publicKey, amount) /\ Effective
    \/ \E publicKey \in AppWallets, recipient \in AppWallets :
           /\ Total(signCount) < transfers
           /\ handleExportTransfer(publicKey, recipient) /\ Effective
    \/ \E publicKey \in AppWallets : handleImportNote(publicKey)
    \/ RetainedCopy
    \/ \E publicKey \in AppWallets : walletNotes[publicKey] # <<>> /\ handleSync(publicKey)

NextWallet == NextApp(MaxWithdrawals, MaxHandovers)
SpecWallet == Init /\ [][NextWallet]_vars

\* in SpecRelay a key holder may also sign a hop without the application
NextRelay ==
    \/ NextApp(MaxNotes, MaxTransfers)
    \/ \E from \in AppWallets, to \in AppWallets : AppendOwnHop(from, to)
SpecRelay == Init /\ [][NextRelay]_vars

(***************************************************************************)
(* Properties of the wallet applications and the ledger, checked under     *)
(* SpecWallet.                                                             *)
(***************************************************************************)
\* what the record of noteId adds to the balance the ledger computes for publicKey
CountsToward(publicKey, noteId) ==
    calculateOfflineBalance(publicKey, issuedNotes, spentNotes)
        - calculateOfflineBalance(publicKey,
              [id \in DOMAIN issuedNotes \ {noteId} |-> issuedNotes[id]], spentNotes)

\* the latest call was a transfer of an unspent note by the wallet it was issued to
FirstTransferMade ==
    /\ last.op = "handleExportTransfer" /\ last.ok
    /\ Len(last.note.transferChain) = 1
    /\ last.note.issuedTo = last.publicKey
    /\ last.note.noteId \in DOMAIN issuedNotes
    /\ last.note.noteId \notin spentNotes

\* C15: after a note issued to W has been transferred offline to another wallet, it
\* no longer counts toward the balance the ledger computes for W, and it counts
\* toward the balance of the wallet that owns it now
C15_AsStated ==
    FirstTransferMade
        => /\ getNoteOwner(last.note) # last.publicKey
           /\ CountsToward(last.publicKey, last.note.noteId) = 0
           /\ CountsToward(getNoteOwner(last.note), last.note.noteId) = last.note.value

\* C16: the values of the notes a wallet holds and owns never add up to more than
\* 1000
C16_AsStated ==
    \A publicKey \in Wallets :
        AppBalance(publicKey, walletNotes[publicKey]) <= WALLET_MAX_OFFLINE_BALANCE

(***************************************************************************)
(* Properties of the wallet applications, checked under SpecRelay.         *)
(***************************************************************************)
\* the notes a wallet holds
HeldNotes(publicKey) == {walletNotes[publicKey][i] : i \in DOMAIN walletNotes[publicKey]}

Exported == last.op = "handleExportTransfer" /\ last.ok

\* every note in a wallet, every payload a wallet exports and every note the issuer
\* redeemed (or would redeem now) has at most 3 hops
WithinHopLimit ==
    /\ \A publicKey \in Wallets : \A note \in HeldNotes(publicKey) :
           Len(note.transferChain) <= 3
    /\ Exported => Len(last.note.transferChain) <= 3
    /\ \A id \in spentNotes : Len(issuedNotes[id].transferChain) <= 3
    /\ \A depositor \in Wallets :
           LET done == RedeemNow(depositor)
           IN wire.noteId # "" /\ ~done.threw /\ done.results[1].status = "redeemed"
                  => Len(wire.transferChain) <= 3

NextLedger ==
    \/ \E publicKey \in AppWallets :
           inflight = {} /\ InOrder(publicKey) /\ Register(publicKey) /\ Effective
    \/ \E publicKey \in AppWallets, amount \in LedgerAmounts :
           /\ inflight = {}
           /\ NotesLeft(MaxMinted, publicKey, amount)
           /\ Withdraw(publicKey, amount)
    \/ \E publicKey \in AppWallets : inflight = {} /\ SendRedeem("deposit", publicKey, "one")
    \/ \E req \in inflight : HandleRedeem(req)

SpecLedger == Init /\ [][NextLedger]_vars

(***************************************************************************)
(* Properties of /withdraw, checked under SpecLedger.                      *)
(***************************************************************************)
CapExceeded == "offline balance limit would be exceeded"

\* C14: a request to mint for a registered wallet, with 0 < amount <= 1000, is
\* refused with "offline balance limit would be exceeded" exactly when the balance
\* the ledger computes for the wallet plus the amount is above 1000; when the sum is
\* 1000 or less the note is minted
C14_BalanceCapBoundary ==
    [][(/\ last'.op = "withdraw"
        /\ last'.publicKey \in DOMAIN registeredWallets
        /\ 0 < last'.amount /\ last'.amount <= MAX_OFFLINE_BALANCE)
       => LET balance == calculateOfflineBalance(last'.publicKey, issuedNotes, spentNotes)
          IN /\ (last'.error = CapExceeded) <=> (balance + last'.amount > MAX_OFFLINE_BALANCE)
             /\ last'.ok <=> (balance + last'.amount <= MAX_OFFLINE_BALANCE)
             /\ last'.ok => Cardinality(DOMAIN issuedNotes') = Cardinality(DOMAIN issuedNotes) + 1
      ]_vars

\* a wallet with unspent notes of 950 was refused 100 more
C14_Witness ==
    /\ last.op = "withdraw" /\ ~last.ok
    /\ last.error = CapExceeded
    /\ last.amount = 100
    /\ calculateOfflineBalance(last.publicKey, issuedNotes, spentNotes) = 950

InvalidAmount ==
    {"amount must be positive",
     "amount exceeds offline balance limit (" \o ToString(MAX_OFFLINE_BALANCE) \o ")"}

\* C17: a request to mint for a wallet that is not registered is refused with "wallet
\* is not registered"; for a registered wallet an amount of 0 or less, or above 1000,
\* is refused as an invalid amount; a refused request makes no note and leaves
\* issuedNotes, spentNotes and registeredWallets as they were
C17_MintFailures ==
    [][last'.op = "withdraw"
       => /\ last'.publicKey \notin DOMAIN registeredWallets
                => ~last'.ok /\ last'.error = "wallet is not registered"
          /\ (/\ last'.publicKey \in DOMAIN registeredWallets
              /\ (last'.amount <= 0 \/ last'.amount > MAX_OFFLINE_BALANCE))
                => ~last'.ok /\ last'.error \in InvalidAmount
          /\ ~last'.ok => UNCHANGED <<issuedNotes, spentNotes, registeredWallets, wire>>
      ]_vars

\* a registered wallet was refused an amount of 0 when the ledger held a note
C17_Witness ==
    /\ last.op = "withdraw" /\ ~last.ok
    /\ last.publicKey \in DOMAIN registeredWallets
    /\ last.amount <= 0 /\ last.error \in InvalidAmount
    /\ issuedNotes # <<>>


(***************************************************************************)
(* SpecRedeem: the issuer's checks on notes with several defects at once.  *)
(* The wallets pass a note on; the payload may then be spoiled in several  *)
(* fields in one edit, the clock may pass the expiry, and a wallet may     *)
(* have posted the payload to /sync and redeemed it.  Of the calls a run   *)
(* keeps the ones that change something; the properties apply redeemNotes  *)
(* to the payload of every state, for every depositor.                     *)
(***************************************************************************)
DefectKinds == {"noteId", "issuerSignature", "issuedTo", "hops", "from", "signature"}

\* an id the issuer never gave out
UnknownNoteId == "n0"

\* another wallet than publicKey
Other(publicKey) == CHOOSE w \in Wallets : w # publicKey

\* the chain made longer than MAX_HOPS by hops that its owners sign one after the
\* other
RECURSIVE Overlong(_, _)
Overlong(note, time) ==
    IF Len(note.transferChain) > MAX_HOPS THEN note
    ELSE LET from == getNoteOwner(note)
             hop == signTransfer(note.noteId, SecretKeyOf(from), from, Other(from), time)
         IN Overlong([note EXCEPT !.transferChain = Append(@, hop)], time)

\* the note with the fields named in kinds changed, for a note with a hop
Spoiled(note, kinds, time) ==
    LET longer == IF "hops" \in kinds THEN Overlong(note, time) ELSE note
        chain == longer.transferChain
        relinked == IF "from" \in kinds
                    THEN [chain EXCEPT ![1].from = Other(@)] ELSE chain
        resigned == IF "signature" \in kinds
                    THEN [relinked EXCEPT ![Len(relinked)].signature = RandomSignature]
                    ELSE relinked
    IN [noteId |-> IF "noteId" \in kinds THEN UnknownNoteId ELSE note.noteId,
        value |-> note.value,
        issuerSignature |-> IF "issuerSignature" \in kinds THEN RandomSignature
                            ELSE note.issuerSignature,
        createdAt |-> note.createdAt,
        expiry |-> note.expiry,
        issuedTo |-> IF "issuedTo" \in kinds THEN Other(note.issuedTo) ELSE note.issuedTo,
        transferChain |-> resigned]

Spoil(kinds) ==
    /\ wire.transferChain # <<>>
    /\ Edit("Spoil", Spoiled(wire, kinds, now))

\* POST /sync with the payload on the wire as the only submitted note
SyncNow(publicKey) ==
    LET done == redeemNotes(publicKey, <<wire>>, DOMAIN registeredWallets, issuedNotes,
                            spentNotes, now)
    IN /\ wire.noteId # ""
       /\ issuedNotes' = done.issued
       /\ spentNotes' = done.spent
       /\ redeemedCount' = Counted(redeemedCount, done.results)
       /\ last' = [op |-> "sync", publicKey |-> publicKey, note |-> wire,
                   status |-> IF done.threw THEN 500 ELSE 200,
                   result |-> IF done.threw THEN Rejected(wire, "none")
                              ELSE done.results[1]]
       /\ UNCHANGED <<now, registeredWallets, sent, inflight, responses, wireVars, appVars>>

NextRedeem ==
    \/ wire.noteId # "" /\ Tick
    \/ \E publicKey \in Wallets : InOrder(publicKey) /\ Register(publicKey) /\ Effective
    \/ \E publicKey \in Wallets, amount \in Amounts :
           CanMint(MaxNotes) /\ Withdraw(publicKey, amount) /\ Effective
    \/ \E sender \in Wallets, recipient \in Wallets, balance \in Balances :
           /\ Total(signCount) < MaxHandovers
           /\ ExportTransfer(sender, recipient, balance) /\ Effective
    \/ \E kinds \in SUBSET DefectKinds : kinds # {} /\ Spoil(kinds)
    \/ \E publicKey \in Wallets : SyncNow(publicKey) /\ last'.result.status = "redeemed"

SpecRedeem == Init /\ [][NextRedeem]_vars


(***************************************************************************)
(* Properties of the issuer's checks, checked under SpecRedeem on the      *)
(* payload of every state.                                                 *)
(***************************************************************************)
Registered(publicKey) == publicKey \in DOMAIN registeredWallets

\* what the issuer answers for the payload on the wire, submitted alone by depositor
OutcomeNow(depositor) ==
    LET done == RedeemNow(depositor)
    IN IF done.threw THEN "none" ELSE Outcome(done.results[1])

\* redeemNotes would leave the ledger as it is
LedgerKept(depositor) ==
    LET done == RedeemNow(depositor)
    IN done.issued = issuedNotes /\ done.spent = spentNotes

UnknownId(note) == note.noteId # "" /\ note.noteId \notin DOMAIN issuedNotes

\* C21 as stated: a note whose id has no entry in issuedNotes is rejected with "note
\* was not issued by this bank"
C21_AsStated ==
    UnknownId(wire) =>
        \A depositor \in Wallets :
            Registered(depositor) => OutcomeNow(depositor) = "note was not issued by this bank"

\* C21: a note whose id has no entry in issuedNotes, submitted by a registered
\* wallet, is rejected and changes nothing in the ledger; the reason is "invalid
\* bank signature", since the signature is checked before the id is looked up and
\* the issuer signs no note without recording its id
C21_UnknownIdRejectedBySignature ==
    UnknownId(wire) =>
        \A depositor \in Wallets :
            Registered(depositor)
                => /\ OutcomeNow(depositor) = "invalid bank signature"
                   /\ LedgerKept(depositor)

\* C21 witness: the id of a note that its owner could redeem was changed to one the
\* issuer never gave out, and nothing else
C21_Witness ==
    /\ last.op = "edit" /\ UnknownId(wire)
    /\ wire = [last.note EXCEPT !.noteId = UnknownNoteId]
    /\ Registered(LastTo(wire))
    /\ IssuedByBank(last.note) /\ IssuerVerifies(last.note, LastTo(wire))
    /\ OutcomeNow(LastTo(wire)) = "invalid bank signature"

\* the checks that come before the check of the depositor pass
OwnedByOther(depositor) ==
    /\ Registered(depositor)
    /\ wire.noteId # "" /\ wire.noteId \notin spentNotes
    /\ IssuedByBank(wire)
    /\ IssuerVerifies(wire, LastTo(wire))
    /\ depositor # LastTo(wire)

\* C22: a note is redeemed only for the depositor that the submitted chain ends at
\* (issuedTo for an empty chain); a registered wallet that is not that owner and
\* submits a note that passes the preceding checks is answered "note is not owned
\* by depositing wallet", and the ledger stays as it is
C22_OnlyTheOwnerRedeems ==
    \A depositor \in Wallets :
        /\ OutcomeNow(depositor) = "redeemed"
               => depositor = LastTo(wire) /\ depositor = getNoteOwner(wire)
        /\ OwnedByOther(depositor)
               => /\ OutcomeNow(depositor) = "note is not owned by depositing wallet"
                  /\ LedgerKept(depositor)

\* C22 witness: after two transfers the note would be redeemed for its owner and is
\* refused to the registered wallet that passed it on
C22_Witness ==
    \E depositor \in Wallets :
        /\ Len(wire.transferChain) = 2
        /\ OwnedByOther(depositor)
        /\ depositor = wire.transferChain[2].from
        /\ OutcomeNow(depositor) = "note is not owned by depositing wallet"
        /\ OutcomeNow(LastTo(wire)) = "redeemed"


\* the defects of a note, each by itself
BadIssuerSignature(note) ==
    note.issuerSignature # Sign(SerializeNoteForSigning(note), SecretKeyOf(BANK_PUBLIC_KEY))
TooManyHops(note) == Len(note.transferChain) > MAX_HOPS
HopUnregistered(note, i) ==
    ~Registered(note.transferChain[i].from) \/ ~Registered(note.transferChain[i].to)
HopUnlinked(note, i) ==
    note.transferChain[i].from #
        IF i = 1 THEN note.issuedTo ELSE note.transferChain[i - 1].to
HopUnsigned(note, i) ==
    LET hop == note.transferChain[i]
    IN hop.signature # Sign("Transfer:" \o note.noteId \o ":" \o hop.to, SecretKeyOf(hop.from))
BadHops(note) ==
    {i \in 1..Len(note.transferChain) :
        HopUnregistered(note, i) \/ HopUnlinked(note, i) \/ HopUnsigned(note, i)}

\* the kind of a result
ReasonKind(outcome) ==
    CASE outcome = "redeemed" -> "Redeemed"
      [] outcome = "note was not issued by this bank" -> "UnknownNoteId"
      [] outcome = "note already spent" -> "AlreadySpent"
      [] outcome = "invalid bank signature" -> "InvalidIssuerSignature"
      [] outcome = "issuedTo does not match issuance record" -> "IssuedToMismatch"
      [] outcome = "note is not owned by depositing wallet" -> "NotOwnedByDepositor"
      [] outcome = "note expired" -> "Expired"
      [] OTHER -> "ChainError"

\* the first failing check in the order UnknownNoteId, AlreadySpent,
\* InvalidIssuerSignature, IssuedToMismatch, chain errors, NotOwnedByDepositor,
\* Expired
FirstAsListed(note, depositor) ==
    IF note.noteId \notin DOMAIN issuedNotes THEN "UnknownNoteId"
    ELSE IF note.noteId \in spentNotes THEN "AlreadySpent"
    ELSE IF BadIssuerSignature(note) THEN "InvalidIssuerSignature"
    ELSE IF note.issuedTo # issuedNotes[note.noteId].issuedTo THEN "IssuedToMismatch"
    ELSE IF TooManyHops(note) \/ BadHops(note) # {} THEN "ChainError"
    ELSE IF LastTo(note) # depositor THEN "NotOwnedByDepositor"
    ELSE IF Past(note, now) THEN "Expired"
    ELSE "Redeemed"

\* C29 as stated: for a note with several defects a registered depositor is told
\* the first failing check in the order UnknownNoteId, AlreadySpent,
\* InvalidIssuerSignature, IssuedToMismatch, chain errors, NotOwnedByDepositor,
\* Expired
C29_AsStated ==
    wire.noteId # "" =>
        \A depositor \in Wallets :
            Registered(depositor)
                => ReasonKind(OutcomeNow(depositor)) = FirstAsListed(wire, depositor)

\* the first failing check in the order of redeemNotes and verifyTransferChain
FirstChecked(note, depositor) ==
    IF note.noteId \in spentNotes THEN "note already spent"
    ELSE IF BadIssuerSignature(note) THEN "invalid bank signature"
    ELSE IF TooManyHops(note)
    THEN "hop limit exceeded (" \o ToString(Len(note.transferChain)) \o "/"
             \o ToString(MAX_HOPS) \o ")"
    ELSE IF BadHops(note) # {}
    THEN LET i == CHOOSE k \in BadHops(note) : \A m \in BadHops(note) : k <= m
             place == "transfer entry " \o ToString(i - 1)
         IN IF HopUnregistered(note, i) THEN place \o " references unregistered wallet"
            ELSE IF HopUnlinked(note, i) THEN place \o " does not chain from previous owner"
            ELSE "signature validation failed for " \o place
    ELSE IF LastTo(note) # depositor THEN "note is not owned by depositing wallet"
    ELSE IF Past(note, now) THEN "note expired"
    ELSE "redeemed"

\* C29: for a note with several defects a registered depositor is told the first
\* failing check in the order AlreadySpent, InvalidIssuerSignature,
\* HopLimitExceeded, then hop by hop unregistered wallet, BrokenLineage and
\* InvalidSignature, then NotOwnedByDepositor, Expired; UnknownNoteId and
\* IssuedToMismatch are not reported, such a note fails the signature check
C29_FirstFailingCheck ==
    wire.noteId # "" =>
        \A depositor \in Wallets :
            Registered(depositor) => OutcomeNow(depositor) = FirstChecked(wire, depositor)

\* C29 witness: a note past its expiry, with a changed issuedTo, more than 3 hops
\* and a hop signature that is not the sender's, of an id that is spent, is put to
\* a registered wallet that does not own it
C29_Witness ==
    \E depositor \in Wallets :
        /\ Registered(depositor) /\ depositor # LastTo(wire)
        /\ wire.noteId \in spentNotes
        /\ BadIssuerSignature(wire) /\ wire.issuedTo # issuedNotes[wire.noteId].issuedTo
        /\ TooManyHops(wire) /\ BadHops(wire) # {}
        /\ Past(wire, now)
        /\ OutcomeNow(depositor) = "note already spent"


(***************************************************************************)
(* SpecRegistry: /register with and without a label, for any wallet at any *)
(* time, between the other operations of the issuer and the wallets.       *)
(***************************************************************************)
NextRegistry ==
    \/ \E publicKey \in Wallets, label \in Labels : RegisterAs(publicKey, label)
    \/ \E publicKey \in Wallets, amount \in Amounts :
           CanMint(MaxNotes) /\ Withdraw(publicKey, amount) /\ Effective
    \/ \E sender \in Wallets, recipient \in Wallets, balance \in Balances :
           /\ Total(signCount) < MaxHandovers
           /\ ExportTransfer(sender, recipient, balance) /\ Effective
    \/ \E publicKey \in Wallets : SyncNow(publicKey)

SpecRegistry == Init /\ [][NextRegistry]_vars

\* C24: /register for a key that is registered returns the label the key has,
\* whatever label the request asks for, and leaves registeredWallets as it is; no
\* operation removes a key from registeredWallets or changes its label
C24_RegisterIdempotent ==
    /\ [][last'.op = "register" /\ Registered(last'.publicKey)
          => /\ registeredWallets' = registeredWallets
             /\ last'.label = registeredWallets[last'.publicKey]
             /\ last'.status = 200
         ]_vars
    /\ [][\A publicKey \in DOMAIN registeredWallets :
              /\ publicKey \in DOMAIN registeredWallets'
              /\ registeredWallets'[publicKey] = registeredWallets[publicKey]
         ]_vars

\* C24 witness: a key registered without a label, which redeemed a note since, was
\* registered again with a label and got the label it had
C24_Witness ==
    /\ last.op = "register" /\ last.status = 200
    /\ last.asked # "" /\ last.label # last.asked
    /\ last.label = registeredWallets[last.publicKey]
    /\ \E id \in spentNotes : issuedNotes[id].owner = last.publicKey


(***************************************************************************)
(* The application with Bluetooth (unnamed/part_000, useBluetoothTransfer, *)
(* BluetoothTransferManager).  handleExportTransfer awaits send() when a   *)
(* peer is connected and goes on with the notes and the note it read       *)
(* before the await; other handlers of the wallet run in between.  The     *)
(* writes to the peer complete in the order they were made, and a wallet   *)
(* without a connected peer has no write pending.  A payload the peer      *)
(* sends arrives as incomingPayload and is handled by the effect.          *)
(***************************************************************************)
MaxPending == 2

\* handleExportTransfer up to the hand-over: to the screen (lastExportedNote) with
\* the note removed when no peer is connected, else to send(), the removal waiting
\* for it
handleExportTransferBluetooth(publicKey, recipient, connectedPeer) ==
    LET owned == OwnedNotes(publicKey)
        note == owned[1]
        built == buildTransferPayload(note, SecretKeyOf(publicKey), publicKey, recipient,
                                      AppBalance(publicKey, walletNotes[publicKey]), now)
        key == <<note.noteId, publicKey, recipient>>
    IN IF owned = <<>>
       THEN /\ last' = AppResult("handleExportTransfer", publicKey, FALSE,
                                 "No notes available", NoPayload)
            /\ UNCHANGED <<now, serverVars, requestVars, wireVars, appVars>>
       ELSE IF ~built.validation.ok
       THEN /\ last' = AppResult("handleExportTransfer", publicKey, FALSE,
                                 built.validation.reason, note)
            /\ UNCHANGED <<now, serverVars, requestVars, wireVars, appVars>>
       ELSE IF connectedPeer
       THEN /\ sending' = [sending EXCEPT ![publicKey] =
                              Append(@, [note |-> note, notes |-> walletNotes[publicKey],
                                         payload |-> built.updatedNote])]
            /\ signCount' = Extend(signCount, key, CountOf(signCount, key) + 1)
            /\ last' = AppResult("send", publicKey, TRUE, "", built.updatedNote)
            /\ UNCHANGED <<now, serverVars, requestVars, wire, wireTag, edits, walletNotes,
                           transferred, storage, calls>>
       ELSE /\ sending[publicKey] = <<>>
            /\ walletNotes' = [walletNotes EXCEPT ![publicKey] =
                                  SelectSeq(@, LAMBDA candidate : candidate.noteId # note.noteId)]
            /\ wire' = built.updatedNote
            /\ wireTag' = "engine"
            /\ signCount' = Extend(signCount, key, CountOf(signCount, key) + 1)
            /\ transferred' = Extend(transferred, note.noteId,
                                     CountOf(transferred, note.noteId) + 1)
            /\ last' = AppResult("handleExportTransfer", publicKey, TRUE, "", built.updatedNote)
            /\ storage' = [storage EXCEPT ![publicKey] = walletNotes'[publicKey]]
            /\ UNCHANGED <<now, serverVars, requestVars, edits, sending, calls>>

\* send() resolved: the payload is with the peer, and the handler stores the notes
\* it read before the await without the note it sent
SendDelivered(publicKey) ==
    /\ sending[publicKey] # <<>>
    /\ LET first == Head(sending[publicKey])
       IN /\ walletNotes' = [walletNotes EXCEPT ![publicKey] =
                                SelectSeq(first.notes,
                                          LAMBDA candidate : candidate.noteId # first.note.noteId)]
          /\ wire' = first.payload
          /\ wireTag' = "engine"
          /\ transferred' = Extend(transferred, first.note.noteId,
                                   CountOf(transferred, first.note.noteId) + 1)
          /\ last' = AppResult("sent", publicKey, TRUE, "", first.payload)
    /\ sending' = [sending EXCEPT ![publicKey] = Tail(@)]
    /\ storage' = [storage EXCEPT ![publicKey] = walletNotes'[publicKey]]
    /\ UNCHANGED <<now, serverVars, requestVars, edits, signCount, calls>>

\* send() threw: 'Bluetooth transfer failed', the wallet keeps its notes
SendFailed(publicKey) ==
    /\ sending[publicKey] # <<>>
    /\ last' = AppResult("sent", publicKey, FALSE, "Bluetooth transfer failed",
                         Head(sending[publicKey]).payload)
    /\ sending' = [sending EXCEPT ![publicKey] = Tail(@)]
    /\ UNCHANGED <<now, serverVars, requestVars, wireVars, walletNotes, transferred, storage,
                   calls>>

\* the effect on incomingPayload with the validation left out
handleIncomingPayloadUnchecked(publicKey) ==
    /\ publicKey \in DOMAIN registeredWallets
    /\ wire.noteId # ""
    /\ IF Holds(publicKey, wire.noteId)
       THEN /\ last' = AppResult("incomingPayload", publicKey, FALSE, "Duplicate note", wire)
            /\ UNCHANGED <<walletNotes, storage>>
       ELSE /\ last' = AppResult("incomingPayload", publicKey, TRUE, "", wire)
            /\ walletNotes' = [walletNotes EXCEPT ![publicKey] = Append(@, wire)]
            /\ storage' = [storage EXCEPT ![publicKey] = walletNotes'[publicKey]]
    /\ UNCHANGED <<now, serverVars, requestVars, wireVars, transferred, sending, calls>>

\* the effect on incomingPayload: the payload of the peer is refused when a note
\* with its id is held, validated with the wallet's balance, and stored on ok
handleIncomingPayload(publicKey) ==
    LET validation == validateIncomingNote(wire, BANK_PUBLIC_KEY, publicKey,
                                           AppBalance(publicKey, walletNotes[publicKey]), now)
    IN /\ publicKey \in DOMAIN registeredWallets
       /\ wire.noteId # ""
       /\ IF Holds(publicKey, wire.noteId)
          THEN /\ last' = AppResult("incomingPayload", publicKey, FALSE, "Duplicate note", wire)
               /\ UNCHANGED <<walletNotes, storage>>
          ELSE IF ~validation.ok
          THEN /\ last' = AppResult("incomingPayload", publicKey, FALSE,
                                    validation.reason, wire)
               /\ UNCHANGED <<walletNotes, storage>>
          ELSE /\ last' = AppResult("incomingPayload", publicKey, TRUE, "", wire)
               /\ walletNotes' = [walletNotes EXCEPT ![publicKey] = Append(@, wire)]
               /\ storage' = [storage EXCEPT ![publicKey] = walletNotes'[publicKey]]
       /\ UNCHANGED <<now, serverVars, requestVars, wireVars, transferred, sending, calls>>

NextBluetooth ==
    \/ \E publicKey \in AppWallets : InOrder(publicKey) /\ Register(publicKey) /\ Effective
    \/ \E publicKey \in AppWallets, amount \in AppAmounts :
           /\ CanMint(MaxWithdrawals)
           /\ handleWithdraw(publicKey, amount) /\ Effective
    \/ \E publicKey \in AppWallets, recipient \in AppWallets, connectedPeer \in BOOLEAN :
           /\ Total(signCount) < MaxHandovers
           /\ Len(sending[publicKey]) < MaxPending
           /\ handleExportTransferBluetooth(publicKey, recipient, connectedPeer) /\ Effective
    \/ \E publicKey \in AppWallets : SendDelivered(publicKey)
    \/ \E publicKey \in AppWallets : SendFailed(publicKey)
    \/ \E publicKey \in AppWallets : handleImportNote(publicKey)
    \/ \E publicKey \in AppWallets : handleIncomingPayload(publicKey)
    \/ RetainedCopy
    \/ \E publicKey \in AppWallets : walletNotes[publicKey] # <<>> /\ handleSync(publicKey)

SpecBluetooth == Init /\ [][NextBluetooth]_vars


(***************************************************************************)
(* Properties of the wallets' held notes, checked under SpecBluetooth.     *)
(***************************************************************************)
\* note is among the notes publicKey holds
Held(publicKey, note) ==
    \E i \in DOMAIN walletNotes[publicKey] : walletNotes[publicKey][i] = note

\* the latest handler took in the payload on the wire for publicKey
TookIn(publicKey) ==
    /\ last.op \in {"handleImportNote", "incomingPayload"}
    /\ last.publicKey = publicKey /\ last.ok

\* the latest handler handed a payload over for publicKey, on the screen or to the
\* connected peer
HandedOff(publicKey) ==
    /\ last.op \in {"handleExportTransfer", "sent"}
    /\ last.publicKey = publicKey /\ last.ok

\* C27: a wallet's notes change on an import or on an incoming Bluetooth payload
\* only when validateIncomingNote returns ok for the payload, the wallet and its
\* balance, and then by that payload; every held note is one the issuer minted to
\* the wallet or one whose issuer signature and chain verify and whose chain ends
\* at the wallet; and the step that hands a transfer over (on the screen or by a
\* send that resolved) leaves the wallet without a note of that id
C27_HeldAfterValidation ==
    /\ [](\A w \in AppWallets : \A i \in DOMAIN walletNotes[w] :
            LET note == walletNotes[w][i]
            IN /\ IssuedByBank(note) /\ HolderVerifies(note)
               /\ getNoteOwner(note) = w
               /\ Len(note.transferChain) <= WALLET_MAX_HOPS)
    /\ [][\A w \in AppWallets :
            /\ (last' # last /\ TookIn(w)') =>
                   /\ validateIncomingNote(wire, BANK_PUBLIC_KEY, w,
                                           AppBalance(w, walletNotes[w]), now).ok
                   /\ walletNotes'[w] = Append(walletNotes[w], wire)
            /\ (last'.op \in {"handleImportNote", "incomingPayload"} /\ ~last'.ok) =>
                   walletNotes' = walletNotes
            /\ (\E note \in {wire, wire'} :
                    /\ ~Held(w, note)
                    /\ \E i \in DOMAIN walletNotes'[w] : walletNotes'[w][i] = note) =>
                   \/ TookIn(w)'
                   \/ last'.op = "handleWithdraw" /\ last'.publicKey = w
                   \/ /\ HandedOff(w)' /\ last'.op = "sent"
                      /\ \E i \in DOMAIN Head(sending[w]).notes :
                             Head(sending[w]).notes[i] \in {wire, wire'}
            /\ (last' # last /\ HandedOff(w)') =>
                   /\ wire' = last'.note
                   /\ \A i \in DOMAIN walletNotes'[w] :
                          walletNotes'[w][i].noteId # wire'.noteId
      ]_vars

\* C27 witness: a wallet that already held a note took in a payload that arrived
\* over Bluetooth, with one hop to it, and holds both
C27_Witness ==
    \E w \in AppWallets :
        /\ TookIn(w) /\ last.op = "incomingPayload"
        /\ Len(walletNotes[w]) = 2 /\ walletNotes[w][2] = wire
        /\ Len(wire.transferChain) = 1 /\ getNoteOwner(wire) = w
        /\ transferred # <<>>


(***************************************************************************)
(* Properties of the signed messages, checked under SpecEngine.            *)
(***************************************************************************)
\* the ids a note may carry
AnyNoteId == {NoteIds[i] : i \in DOMAIN NoteIds} \cup {UnknownNoteId}

\* C28: every note the issuer minted verifies under the issuer's key in the
\* wallet's verifyBankSignature and in the issuer's; the hop buildTransferPayload
\* appends is the one signTransfer makes, its signature verifies over the message
\* the wallet builds and over the message the issuer builds, a chain that verified
\* before the hop verifies with it, at the wallet and (for registered wallets) at
\* the issuer; and the signature verifies for no other note id and no other
\* recipient, on either side
C28_OneCanonicalMessage ==
    /\ \A id \in DOMAIN issuedNotes :
           /\ ~WalletVerifyBankSignatureThrows(issuedNotes[id])
           /\ WalletVerifyBankSignature(issuedNotes[id], BANK_PUBLIC_KEY)
           /\ ~ServerVerifyBankSignatureThrows(issuedNotes[id])
           /\ ServerVerifyBankSignature(issuedNotes[id])
    /\ BuiltOk =>
           LET note == last.updatedNote
               hop == note.transferChain[Len(note.transferChain)]
           IN /\ hop = signTransfer(note.noteId, SecretKeyOf(last.senderPublicKey),
                                    last.senderPublicKey, last.recipientPublicKey, last.time)
              /\ ~VerifyThrows(hop.signature)
              /\ Verify(TransferMessage(note.noteId, hop.to), hop.signature, hop.from)
              /\ Verify(ServerTransferMessage(note.noteId, hop.to), hop.signature, hop.from)
              /\ HolderVerifies(last.note) => HolderVerifies(note)
              /\ (/\ IssuerVerifies(last.note, last.senderPublicKey)
                  /\ last.recipientPublicKey \in DOMAIN registeredWallets)
                     => IssuerVerifies(note, last.recipientPublicKey)
              /\ \A id \in AnyNoteId, to \in Wallets :
                     (id # note.noteId \/ to # hop.to) =>
                         /\ ~Verify(TransferMessage(id, to), hop.signature, hop.from)
                         /\ ~Verify(ServerTransferMessage(id, to), hop.signature, hop.from)

\* C28 witness: the second hop of a minted note was signed, and the note verifies
\* with it at the wallet and, for the recipient, at the issuer
C28_Witness ==
    /\ BuiltOk /\ last.updatedNote = wire /\ Len(wire.transferChain) = 2
    /\ WalletVerifyBankSignature(wire, BANK_PUBLIC_KEY) /\ ServerVerifyBankSignature(wire)
    /\ HolderVerifies(wire)
    /\ IssuerVerifies(wire, last.recipientPublicKey)


\* the fields the issuer signed, and its signature
MintFields(note) ==
    <<note.noteId, note.value, note.createdAt, note.expiry, note.issuedTo,
      note.issuerSignature>>

\* what the two verifications of the issuer signature make of a note: whether they
\* throw and what they return
IssuerSignatureChecks(note) ==
    <<WalletVerifyBankSignatureThrows(note), WalletVerifyBankSignature(note, BANK_PUBLIC_KEY),
      ServerVerifyBankSignatureThrows(note), ServerVerifyBankSignature(note)>>

\* C30: the note buildTransferPayload returns has the noteId, value, createdAt,
\* expiry, issuedTo and issuerSignature of the note it was given, so the issuer
\* signature verifies after the call exactly when it did before; a payload that
\* went through the engine only, any number of times, carries the issuer's
\* signature; and the call leaves the note it was given, chain and all, as it was
C30_MintFieldsKept ==
    /\ [](Built =>
            /\ MintFields(last.updatedNote) = MintFields(last.note)
            /\ IssuerSignatureChecks(last.updatedNote) = IssuerSignatureChecks(last.note))
    /\ [](wireTag = "engine" =>
            IssuedByBank(wire) /\ IssuerSignatureChecks(wire) = <<FALSE, TRUE, FALSE, TRUE>>)
    /\ [][(last' # last /\ last'.op = "buildTransferPayload") =>
              LET built == buildTransferPayload(wire, SecretKeyOf(last'.senderPublicKey),
                                                last'.senderPublicKey,
                                                last'.recipientPublicKey,
                                                last'.currentBalance, now)
              IN /\ built.note = wire
                 /\ built.updatedNote = last'.updatedNote
                 /\ last'.note = wire
      ]_vars

\* C30 witness: the third transfer of a minted note succeeded, and the note carries
\* the issuer's signature as before
C30_Witness ==
    /\ BuiltOk /\ last.updatedNote = wire /\ wireTag = "engine"
    /\ Len(last.note.transferChain) = 2 /\ Len(wire.transferChain) = 3
    /\ MintFields(wire) = MintFields(last.note)
    /\ IssuedByBank(last.note) /\ IssuedByBank(wire)


(***************************************************************************)
(* Properties of the hops' timestamps, checked under SpecRedeem.           *)
(***************************************************************************)
\* the note with the timestamp of every hop taken away (an empty string stands
\* for a missing field)
WithoutStamps(note) ==
    [note EXCEPT !.transferChain =
        [i \in DOMAIN note.transferChain |-> [note.transferChain[i] EXCEPT !.timestamp = ""]]]

\* the note with every hop stamped at time
StampedAt(note, time) ==
    [note EXCEPT !.transferChain =
        [i \in DOMAIN note.transferChain |->
            [note.transferChain[i] EXCEPT !.timestamp = ToISOString(time)]]]

\* the note with the first hop's timestamp pushed past the others', so that the
\* timestamps no longer follow the order of the hops
StampsOutOfOrder(note) ==
    [note EXCEPT !.transferChain =
        [i \in DOMAIN note.transferChain |->
            [note.transferChain[i] EXCEPT !.timestamp =
                IF i = 1 THEN ToISOString(NOTE_LIFETIME_MS + MaxSkew) ELSE ToISOString(0)]]]

Restamped(note) ==
    {WithoutStamps(note), StampsOutOfOrder(note), StampedAt(note, NOTE_LIFETIME_MS + MaxSkew)}

\* what the wallet's verifyTransferChain, validateIncomingNote (for every recipient
\* and balance) and the issuer's redeemNotes (for every depositor) make of a note
Verdicts(note) ==
    <<WalletVerifyTransferChainThrows(note), WalletVerifyTransferChain(note),
      [recipient \in Wallets |->
          [balance \in Balances |->
              validateIncomingNote(note, BANK_PUBLIC_KEY, recipient, balance, now)]],
      [depositor \in Wallets |->
          LET done == redeemNotes(depositor, <<note>>, DOMAIN registeredWallets,
                                  issuedNotes, spentNotes, now)
          IN <<done.threw, done.results, done.spent>>]>>

\* C31: the payload with the timestamps of its hops removed, all set to one time,
\* or set out of the order of the hops gets from verifyTransferChain, from
\* validateIncomingNote and from redeemNotes what the payload itself gets
C31_TimestampsAdvisory ==
    LET verdicts == Verdicts(wire)
    IN \A other \in Restamped(wire) : Verdicts(other) = verdicts

\* C31 witness: a payload with two hops that its owner would get redeemed, and
\* whose timestamps are there to be changed
C31_Witness ==
    /\ Len(wire.transferChain) = 2
    /\ \A i \in DOMAIN wire.transferChain : wire.transferChain[i].timestamp # ""
    /\ WithoutStamps(wire) # wire /\ StampsOutOfOrder(wire) # wire
    /\ HolderVerifies(wire)
    /\ validateIncomingNote(wire, BANK_PUBLIC_KEY, LastTo(wire), 0, now).ok
    /\ OutcomeNow(LastTo(wire)) = "redeemed"

(***************************************************************************)
(* Properties of the stored notes, checked under SpecWallet.               *)
(***************************************************************************)
\* what /sync answers publicKey for the notes it holds
SyncAnswer(publicKey) ==
    redeemNotes(publicKey, walletNotes[publicKey], DOMAIN registeredWallets, issuedNotes,
                spentNotes, now)

RedeemedIn(results, noteId) ==
    \E i \in DOMAIN results : results[i].noteId = noteId /\ results[i].status = "redeemed"

Stored(publicKey, note) ==
    \E i \in DOMAIN storage[publicKey] : storage[publicKey][i] = note

\* C32: after syncNotes the stored notes are the submitted notes without those with
\* a redeemed result, in their order: every redeemed note is gone and every
\* rejected note is kept; a sync that fails leaves the stored notes alone
C32_StoredAfterSync ==
    [][\A w \in AppWallets :
           last'.op = "handleSync" /\ last'.publicKey = w =>
               LET submitted == walletNotes[w]
                   answer == SyncAnswer(w)
                   kept == {i \in DOMAIN submitted :
                               ~RedeemedIn(answer.results, submitted[i].noteId)}
               IN IF last'.ok
                  THEN /\ ~answer.threw
                       /\ Len(storage'[w]) = Cardinality(kept)
                       /\ \A i \in DOMAIN submitted :
                              i \in kept <=>
                                  \E j \in DOMAIN storage'[w] : storage'[w][j] = submitted[i]
                       /\ \A j, k \in DOMAIN storage'[w] :
                              j < k => \E i, m \in kept :
                                           /\ i < m
                                           /\ submitted[i] = storage'[w][j]
                                           /\ submitted[m] = storage'[w][k]
                  ELSE answer.threw /\ storage'[w] = storage[w]
      ]_vars

\* C32 witness: a wallet synced two notes; one was redeemed and is gone, the other,
\* redeemed by an earlier sync, was rejected and is the one note still stored
C32_Witness ==
    /\ last.op = "handleSync" /\ last.ok
    /\ Len(storage[last.publicKey]) = 1
    /\ storage[last.publicKey][1].noteId \in spentNotes
    /\ \E id \in spentNotes :
           /\ id # storage[last.publicKey][1].noteId
           /\ issuedNotes[id].owner = last.publicKey
           /\ CountOf(redeemedCount, id) = 1

(***************************************************************************)
(* The wallet's checks against the issuer's, checked under SpecRedeem on   *)
(* the payload of every state.                                             *)
(***************************************************************************)
\* validateIncomingNote is ok for the recipient at some balance
PassesFor(note, recipient) ==
    \E balance \in Balances :
        validateIncomingNote(note, BANK_PUBLIC_KEY, recipient, balance, now).ok

\* every wallet a hop names is registered
HopsRegistered(note) ==
    \A i \in 1..Len(note.transferChain) : ~HopUnregistered(note, i)

\* the loop of the issuer's verifyTransferChain over the chain of the note
IssuerLoop(note) ==
    ServerChainLoop(note, 1, note.issuedTo, DOMAIN registeredWallets)

Answered == Len(responses') = Len(responses) + 1

\* C34: a deposit or sync from a public key that is not registered redeems nothing:
\* /deposit answers 404 without results, /sync rejects every submitted note with
\* "wallet is not registered", and spentNotes and issuedNotes are as before
C34_UnregisteredRedeemsNothing ==
    /\ [](\A k \in DOMAIN responses :
             ~responses[k].registered =>
                 LET answer == responses[k]
                 IN /\ answer.kind = "deposit" =>
                           /\ answer.status = 404
                           /\ \A i \in DOMAIN answer.notes : answer.notes[i].outcome = "none"
                    /\ answer.kind = "sync" =>
                           /\ answer.status = 200
                           /\ \A i \in DOMAIN answer.notes :
                                  answer.notes[i].outcome = "wallet is not registered"
                           /\ answer.balanceAfter = answer.balanceBefore)
    /\ [][Answered /\ ~responses'[Len(responses')].registered =>
              /\ UNCHANGED <<issuedNotes, spentNotes>>
              /\ Total(redeemedCount') = Total(redeemedCount)]_vars

\* C34 witness: a wallet that is not registered got 404 for its deposit and two
\* rejections for its sync of two notes, one of them a note as the wallets made it
C34_Witness ==
    \E k, m \in DOMAIN responses :
        /\ ~responses[k].registered /\ responses[k].kind = "deposit"
        /\ responses[k].status = 404
        /\ ~responses[m].registered /\ responses[m].kind = "sync"
        /\ Len(responses[m].notes) = 2
        /\ responses[m].notes[1].tag = "engine"
        /\ responses[m].notes[1].outcome = "wallet is not registered"

(***************************************************************************)
(* Properties of the issuance records, checked under SpecRedeem.  The      *)
(* requests of a run submit the payload on the wire; in every state the    *)
(* property also puts to redeemNotes the payload with its value, its       *)
(* createdAt, its expiry or its issuedTo changed, for every depositor.     *)
(***************************************************************************)
\* the fields of a record that /withdraw wrote and signed
RecordMintFields(record) ==
    <<record.noteId, record.value, record.issuedTo, record.createdAt, record.expiry>>

\* the note with one of its signed fields changed
Recast(note) ==
    {[note EXCEPT !.value = @ + 50],
     [note EXCEPT !.createdAt = ToISOString(DateGetTime(@) + 1)],
     [note EXCEPT !.expiry = ToISOString(DateGetTime(@) + 1)],
     [note EXCEPT !.issuedTo = Other(@)]}

\* C35: for every note id, the value, issuedTo, createdAt and expiry of
\* issuedNotes[id] stay as /withdraw wrote them: no step changes them, though a
\* redeem stores the submitted note as the record, and no redeem of a payload with
\* one of them changed would, as only a payload whose fields are those of the
\* record and carry the issuer's signature is redeemed; every record carries the
\* issuer's signature over its fields
C35_MintFieldsOfRecords ==
    /\ [][\A id \in DOMAIN issuedNotes :
              /\ id \in DOMAIN issuedNotes'
              /\ RecordMintFields(issuedNotes'[id]) = RecordMintFields(issuedNotes[id])
         ]_vars
    /\ [](\A id \in DOMAIN issuedNotes :
              /\ issuedNotes[id].noteId = id
              /\ ServerVerifyBankSignature(issuedNotes[id]))
    /\ [](wire.noteId # "" =>
              \A note \in Recast(wire) \cup {wire}, depositor \in Wallets :
                  LET done == redeemNotes(depositor, <<note>>, DOMAIN registeredWallets,
                                          issuedNotes, spentNotes, now)
                  IN /\ DOMAIN done.issued = DOMAIN issuedNotes
                     /\ \A id \in DOMAIN issuedNotes :
                            RecordMintFields(done.issued[id]) =
                                RecordMintFields(issuedNotes[id])
                     /\ done.spent # spentNotes => IssuedByBank(note))

\* C35 witness: a redeem has put a submitted note with two hops in the place of
\* the record, with the depositor as owner, and the payload on the wire with a
\* later expiry would pass every check but the one of the issuer signature
C35_Witness ==
    /\ wire.noteId \in spentNotes
    /\ issuedNotes[wire.noteId] = WithOwner(wire, LastTo(wire))
    /\ Len(wire.transferChain) = 2
    /\ issuedNotes[wire.noteId].owner # wire.issuedTo
    /\ LET later == [wire EXCEPT !.expiry = ToISOString(DateGetTime(@) + 1)]
       IN /\ IssuerVerifies(later, LastTo(wire))
          /\ ~ServerVerifyBankSignature(later)

(***************************************************************************)
(* Properties of the balance the issuer computes, checked under            *)
(* SpecWallet.  /sync computes balanceBefore, calls redeemNotes and        *)
(* computes balanceAfter; the wallets' handleSync is the request.          *)
(***************************************************************************)
LedgerBalance(publicKey) == calculateOfflineBalance(publicKey, issuedNotes, spentNotes)

\* the unspent records that calculateOfflineBalance counts for the wallet
CountedFor(publicKey) ==
    {id \in DOMAIN issuedNotes \ spentNotes :
        calculateOfflineBalance(publicKey, [i \in {id} |-> issuedNotes[id]], {})
            = issuedNotes[id].value}

\* C36: calculateOfflineBalance is at most 1000 for every wallet in every state, and
\* a sync does not increase it: balanceAfter is balanceBefore less the values of the
\* notes redeemed in the request that were counted for the depositor
C36_LedgerBalanceBounded ==
    /\ [](\A w \in Wallets : LedgerBalance(w) <= MAX_OFFLINE_BALANCE)
    /\ [][\A w \in AppWallets :
              last'.op = "handleSync" /\ last'.publicKey = w /\ last'.ok =>
                  LET balanceBefore == LedgerBalance(w)
                      balanceAfter == LedgerBalance(w)'
                      redeemed == {id \in DOMAIN issuedNotes :
                                      RedeemedIn(SyncAnswer(w).results, id)}
                      counted == redeemed \cap CountedFor(w)
                  IN /\ balanceAfter <= balanceBefore
                     /\ balanceBefore - balanceAfter =
                            SumValues({issuedNotes[id] : id \in counted})
                     /\ spentNotes' = spentNotes \cup redeemed
         ]_vars

\* C36 witness: a wallet has synced a note of 1000 that counted for it and a note
\* that did not, issued to another wallet, and both were redeemed: its balance
\* went from 1000 to 0
C36_Witness ==
    /\ last.op = "handleSync" /\ last.ok
    /\ \E id, other \in spentNotes :
           /\ id # other
           /\ issuedNotes[id].owner = last.publicKey
           /\ issuedNotes[other].owner = last.publicKey
           /\ issuedNotes[id].issuedTo = last.publicKey
           /\ issuedNotes[other].issuedTo # last.publicKey
           /\ issuedNotes[id].value = 1000
    /\ LedgerBalance(last.publicKey) = 0

(***************************************************************************)
(* Properties of the notes a wallet holds, checked under SpecBluetooth.    *)
(***************************************************************************)
\* no two notes of the sequence have the same noteId
DistinctIds(notes) ==
    \A i, j \in DOMAIN notes : notes[i].noteId = notes[j].noteId => i = j

\* every note of the sequence has publicKey as its current owner
AllOwnedBy(notes, publicKey) ==
    \A i \in DOMAIN notes : getNoteOwner(notes[i]) = publicKey

\* C37: in every state the notes a wallet holds have different noteIds and the
\* wallet's public key as their current owner (the to of the last hop, issuedTo for
\* an empty chain); so have the notes it has stored
C37_HeldNotesDistinctAndOwned ==
    \A w \in Wallets :
        /\ DistinctIds(walletNotes[w]) /\ AllOwnedBy(walletNotes[w], w)
        /\ DistinctIds(storage[w]) /\ AllOwnedBy(storage[w], w)

\* C37 witness: a wallet that holds a note it withdrew and a note it received has
\* been handed the payload of one of them again and refused it as a duplicate
C37_Witness ==
    /\ last.op \in {"handleImportNote", "incomingPayload"}
    /\ last.reason = "Duplicate note"
    /\ LET held == walletNotes[last.publicKey]
       IN /\ Len(held) = 2
          /\ \E i, j \in DOMAIN held :
                 /\ held[i].transferChain = <<>>
                 /\ held[j].transferChain # <<>>
                 /\ held[j].noteId = wire.noteId

(***************************************************************************)
(* SpecStorage: withdrawNote and syncNotes with their awaits.  The notes   *)
(* under NOTES_KEY are storage; loadNotes reads them and saveNotes writes  *)
(* them, each at one instant, in the order the calls were made.  A call    *)
(* that waits is in calls with the values it has read so far; between its  *)
(* steps the other handlers of the wallet run.  handleImportNote and       *)
(* handleExportTransfer have no await: they set the state and call         *)
(* updateNotes with the same array.  A wallet has one withdrawal and one   *)
(* sync under way at most.                                                 *)
(***************************************************************************)
Call(kind, pc, note, notes, results) ==
    [kind |-> kind, pc |-> pc, note |-> note, notes |-> notes, results |-> results]

Begin(publicKey, call) ==
    calls' = [calls EXCEPT ![publicKey] = @ \cup {call}]

Proceed(publicKey, call, next) ==
    calls' = [calls EXCEPT ![publicKey] = (@ \ {call}) \cup next]

\* handleWithdraw up to the response of /withdraw: withdrawNote checks the amount
\* and posts it, the issuer mints
withdrawNoteFetch(publicKey, amount) ==
    \E later \in LaterReads(now) :
        LET done == WithdrawResponse(publicKey, amount, DOMAIN registeredWallets,
                                     issuedNotes, spentNotes, now, later)
        IN IF amount <= 0 \/ amount > WALLET_MAX_OFFLINE_BALANCE
           THEN /\ later = now
                /\ last' = AppResult("handleWithdraw", publicKey, FALSE,
                                     "Amount must respect offline balance limits", NoPayload)
                /\ UNCHANGED <<now, serverVars, requestVars, wireVars, appVars>>
           ELSE /\ Cardinality(DOMAIN issuedNotes) < Len(NoteIds)
                /\ last' = AppResult("withdrawNote", publicKey, done.ok, done.error,
                                     done.note)
                /\ IF done.ok
                   THEN /\ issuedNotes' = Extend(issuedNotes, done.note.noteId,
                                                 WithOwner(done.note, publicKey))
                        /\ Begin(publicKey,
                                 Call("withdraw", "fetched", done.note, <<>>, <<>>))
                        /\ now' = later
                   ELSE /\ later = now
                        /\ UNCHANGED <<now, issuedNotes, calls>>
                /\ UNCHANGED <<registeredWallets, spentNotes, requestVars, wireVars,
                               walletNotes, transferred, sending, storage>>

\* const notes = await loadNotes()
withdrawNoteLoad(publicKey, call) ==
    /\ call.kind = "withdraw" /\ call.pc = "fetched"
    /\ Proceed(publicKey, call,
               {Call("withdraw", "loaded", call.note, storage[publicKey], <<>>)})
    /\ last' = AppResult("loadNotes", publicKey, TRUE, "", call.note)
    /\ UNCHANGED <<now, serverVars, requestVars, wireVars, walletNotes, transferred,
                   sending, storage>>

\* await saveNotes([...notes, payload.note])
withdrawNoteSave(publicKey, call) ==
    /\ call.kind = "withdraw" /\ call.pc = "loaded"
    /\ storage' = [storage EXCEPT ![publicKey] = Append(call.notes, call.note)]
    /\ Proceed(publicKey, call, {Call("withdraw", "saved", call.note, <<>>, <<>>)})
    /\ last' = AppResult("saveNotes", publicKey, TRUE, "", call.note)
    /\ UNCHANGED <<now, serverVars, requestVars, wireVars, walletNotes, transferred,
                   sending>>

\* withdrawNote has returned: setNotes((current) => [...current, note])
handleWithdrawReturn(publicKey, call) ==
    /\ call.kind = "withdraw" /\ call.pc = "saved"
    /\ walletNotes' = [walletNotes EXCEPT ![publicKey] = Append(@, call.note)]
    /\ Proceed(publicKey, call, {})
    /\ last' = AppResult("handleWithdraw", publicKey, TRUE, "", call.note)
    /\ UNCHANGED <<now, serverVars, requestVars, wireVars, transferred, sending, storage>>

\* handleSync up to the response of /sync: syncNotes posts the notes of the state,
\* the issuer redeems; a response that is not ok makes syncNotes throw
syncNotesFetch(publicKey) ==
    LET held == walletNotes[publicKey]
        done == redeemNotes(publicKey, held, DOMAIN registeredWallets, issuedNotes,
                            spentNotes, now)
    IN /\ issuedNotes' = done.issued
       /\ spentNotes' = done.spent
       /\ redeemedCount' = Counted(redeemedCount, done.results)
       /\ IF done.threw
          THEN /\ last' = AppResult("handleSync", publicKey, FALSE, "Sync failed", NoPayload)
               /\ UNCHANGED calls
          ELSE /\ last' = AppResult("syncNotes", publicKey, TRUE, "", NoPayload)
               /\ Begin(publicKey, Call("sync", "fetched", NoPayload, held, done.results))
       /\ UNCHANGED <<now, registeredWallets, sent, inflight, responses, wireVars,
                      walletNotes, transferred, sending, storage>>

\* await saveNotes(unspent)
syncNotesSave(publicKey, call) ==
    /\ call.kind = "sync" /\ call.pc = "fetched"
    /\ storage' = [storage EXCEPT ![publicKey] = unspent(call.notes, call.results)]
    /\ Proceed(publicKey, call, {Call("sync", "saved", NoPayload, <<>>, call.results)})
    /\ last' = AppResult("saveNotes", publicKey, TRUE, "", NoPayload)
    /\ UNCHANGED <<now, serverVars, requestVars, wireVars, walletNotes, transferred,
                   sending>>

\* syncNotes has returned: setNotes((current) => current.filter(...))
handleSyncReturn(publicKey, call) ==
    /\ call.kind = "sync" /\ call.pc = "saved"
    /\ walletNotes' = [walletNotes EXCEPT ![publicKey] = unspent(@, call.results)]
    /\ Proceed(publicKey, call, {})
    /\ last' = AppResult("handleSync", publicKey, TRUE, "", NoPayload)
    /\ UNCHANGED <<now, serverVars, requestVars, wireVars, transferred, sending, storage>>

\* the wallet has a call of this kind that has not returned: a wallet starts a
\* withdrawal or a sync when its last one is over
Waiting(publicKey, kind) == \E call \in calls[publicKey] : call.kind = kind

NextStorage ==
    \/ \E publicKey \in AppWallets : InOrder(publicKey) /\ Register(publicKey) /\ Effective
    \/ \E publicKey \in AppWallets, amount \in AppAmounts :
           /\ CanMint(MaxWithdrawals)
           /\ ~Waiting(publicKey, "withdraw")
           /\ withdrawNoteFetch(publicKey, amount) /\ Effective
    \/ \E publicKey \in AppWallets : \E call \in calls[publicKey] :
           withdrawNoteLoad(publicKey, call)
    \/ \E publicKey \in AppWallets : \E call \in calls[publicKey] :
           withdrawNoteSave(publicKey, call)
    \/ \E publicKey \in AppWallets : \E call \in calls[publicKey] :
           handleWithdrawReturn(publicKey, call)
    \/ \E publicKey \in AppWallets, recipient \in AppWallets :
           /\ Total(signCount) < MaxHandovers
           /\ handleExportTransfer(publicKey, recipient) /\ Effective
    \/ \E publicKey \in AppWallets : handleImportNote(publicKey) /\ Effective
    \/ \E publicKey \in AppWallets :
           /\ walletNotes[publicKey] # <<>>
           /\ ~Waiting(publicKey, "sync")
           /\ syncNotesFetch(publicKey)
    \/ \E publicKey \in AppWallets : \E call \in calls[publicKey] :
           syncNotesSave(publicKey, call)
    \/ \E publicKey \in AppWallets : \E call \in calls[publicKey] :
           handleSyncReturn(publicKey, call)

SpecStorage == Init /\ [][NextStorage]_vars

\* no call of the wallet is waiting
Settled(publicKey) == calls[publicKey] = {}

\* C38 as stated: once the calls of a wallet have returned, every note the wallet
\* holds (the notes it withdrew or accepted and has not passed on) that is not
\* redeemed is among its stored notes
C38_AsStated ==
    \A w \in AppWallets :
        Settled(w) =>
            \A i \in DOMAIN walletNotes[w] :
                walletNotes[w][i].noteId \notin spentNotes => Stored(w, walletNotes[w][i])

(***************************************************************************)
(* Properties of the hand-over between two wallets, checked under          *)
(* SpecBluetooth.                                                          *)
(***************************************************************************)
\* the wallet that signed the last hop of the payload
SenderOf(note) == note.transferChain[Len(note.transferChain)].from

\* the receiver's handler has just refused the payload its peer made, by its
\* validation
RefusedByReceiver ==
    /\ last.op \in {"incomingPayload", "handleImportNote"}
    /\ ~last.ok /\ last.reason # "Duplicate note"
    /\ last.note = wire /\ wireTag = "engine"
    /\ wire.transferChain # <<>>
    /\ last.publicKey = LastTo(wire)

\* C39 as stated: when the receiver's validation rejects the payload the note is
\* still held by the sender
C39_AsStated ==
    RefusedByReceiver => Holds(SenderOf(wire), wire.noteId)

====
